---- MODULE Spec2Model ----
(***************************************************************************)
(* SpartaPay reconciliation layer: the Express handlers of server.js       *)
(* (organizations, events, payments) over the local data.json file, the    *)
(* optional Firestore mirror and the optional Supabase bucket, and the     *)
(* two organization-name canonicalizers (server and migration tool).       *)
(*                                                                         *)
(* JavaScript strings are sequences of tokens; null / undefined / a        *)
(* missing form field is the one-token sequence NULL.                      *)
(***************************************************************************)
EXTENDS Integers, Sequences, FiniteSets, TLC

\* ------------------------------------------------------------------ bounds
\* longest organization name handed to the canonicalizers
MaxNameLen == 3
\* requests handled in one run of the organizations / events specification
MaxOrgRequests == 3
\* requests served in a run of the submission scenarios
MaxSubmitRequests == 2
\* requests served in a run of the review scenarios
MaxReviewRequests == 4
\* requests served in a run of the proof scenarios
MaxProofRequests == 2

\* ------------------------------------------------------------------ values
NULL == <<"null">>
EMPTY == <<>>

\* null / undefined where an object is expected, and the empty object {}
NONE == [none |-> TRUE]
IsNone(obj) == "none" \in DOMAIN obj
EmptyObject == [k \in {} |-> NULL]

\* JavaScript truthiness of a string-or-null value
Truthy(v) == v # NULL /\ v # EMPTY

\* v || null
OrNull(v) == IF Truthy(v) THEN v ELSE NULL

\* uuidv4(): the n-th identifier handed out
Uuid(n) == <<"uuid", ToString(n)>>

\* characters: "e^" / "E^" are the precomposed accented letters, "^" is the
\* combining acute accent (U+0301), " " is whitespace
Chars == {"e", "E", "e^", "E^", " ", "^"}

RECURSIVE StringsUpTo(_)
StringsUpTo(n) ==
  IF n = 0 THEN {EMPTY}
  ELSE LET shorter == StringsUpTo(n - 1)
       IN shorter \cup {Append(s, c) : s \in {t \in shorter : Len(t) = n - 1}, c \in Chars}

Strings == StringsUpTo(MaxNameLen)

\* String(name || '')
StringOrEmpty(v) == IF Truthy(v) THEN v ELSE EMPTY

\* String.prototype.trim
RECURSIVE TrimLeft(_)
TrimLeft(s) == IF s # EMPTY /\ Head(s) = " " THEN TrimLeft(Tail(s)) ELSE s

RECURSIVE TrimRight(_)
TrimRight(s) ==
  IF s # EMPTY /\ s[Len(s)] = " " THEN TrimRight(SubSeq(s, 1, Len(s) - 1)) ELSE s

Trim(s) == TrimRight(TrimLeft(s))

\* String.prototype.toLowerCase
LowerChar(c) == CASE c = "E" -> "e" [] c = "E^" -> "e^" [] OTHER -> c

ToLowerCase(s) == [i \in 1..Len(s) |-> LowerChar(s[i])]

\* String.prototype.normalize('NFKD'): precomposed letters decompose into
\* base letter + combining mark
RECURSIVE NormalizeNFKD(_)
NormalizeNFKD(s) ==
  IF s = EMPTY THEN EMPTY
  ELSE (CASE Head(s) = "e^" -> <<"e", "^">>
          [] Head(s) = "E^" -> <<"E", "^">>
          [] OTHER -> <<Head(s)>>) \o NormalizeNFKD(Tail(s))

\* .replace(/[\u0300-\u036f]/g, ''): drop the combining marks
RECURSIVE StripCombining(_)
StripCombining(s) ==
  IF s = EMPTY THEN EMPTY
  ELSE (IF Head(s) = "^" THEN EMPTY ELSE <<Head(s)>>) \o StripCombining(Tail(s))

\* server.js canonicalOrgName
canonicalOrgName(name) == ToLowerCase(Trim(StringOrEmpty(name)))

\* migrate-to-firestore.js canonicalizeName
canonicalizeName(name) ==
  IF ~Truthy(name) /\ name # EMPTY THEN EMPTY
  ELSE ToLowerCase(Trim(StripCombining(NormalizeNFKD(StringOrEmpty(name)))))

\* ------------------------------------------------------------------ state
VARIABLES
  firestore,        \* a Firestore handle is configured (firebase-admin initialised)
  supabase,         \* a Supabase client is configured
  organizations,    \* data.json: db.organizations
  events,           \* data.json: db.events
  payments,         \* data.json: db.payments
  fsOrganizations,  \* Firestore collection 'organizations': id -> document
  fsEvents,         \* Firestore collection 'events'
  fsPayments,       \* Firestore collection 'payments'
  officerProfiles,  \* data.json: db.officerProfiles, key -> profile
  fsOfficerProfiles, \* Firestore collection 'officerProfiles'
  bucket,           \* object paths held by the Supabase bucket
  uploads,          \* file names under the local uploads/ directory
  uuid,             \* number of uuidv4() values handed out
  clock,            \* Date.now()
  input,            \* arguments handed to the pure functions under test
  backups,          \* data.json.bak.* files: the copies of data.json taken so far
  putInFlight,      \* the PUT /api/events/:id handler suspended at an await: its request and the db it read
  upsertCalls,      \* the POST /api/orgs handlers waiting on upsertOrganizationByName, per client
  studentPage,      \* the student dashboard page: view shown, message, localStorage history
  dashboard,        \* the officer dashboard page: open event, filters, table, stat cards
  resp              \* the last completed request and its response

vars == <<firestore, supabase, organizations, events, payments, fsOrganizations,
          fsEvents, fsPayments, officerProfiles, fsOfficerProfiles, bucket, uploads,
          uuid, clock, input, backups, putInFlight, upsertCalls,
          studentPage, dashboard, resp>>

config == <<firestore, supabase>>
localFile == <<organizations, events, payments>>
cloudDocs == <<fsOrganizations, fsEvents, fsPayments>>
blobs == <<bucket, uploads>>
profiles == <<officerProfiles, fsOfficerProfiles>>

NoDocs == [id \in {} |-> NULL]

\* the two clients whose POST /api/orgs requests may be in progress together
Callers == {1, 2}
NoCalls == [c \in Callers |-> [none |-> TRUE]]
NoResp == [op |-> "none", status |-> 0, body |-> NONE, upserts |-> <<>>]

\* server start: data.json freshly created, nothing in the cloud
\* clicks and renders of the dashboard page
MaxDashSteps == 3

\* the student page before any submission: the payment form is shown, no
\* message, an empty localStorage paymentHistory, no request in flight and no
\* response handled yet (handled: the clock of the last response consumed)
NoStudentPage == [view |-> "paymentForm", message |-> NULL, paymentHistory |-> <<>>,
                  pending |-> [none |-> TRUE], handled |-> 0]

\* the stat cards as ensureStatsElements creates them
ZeroStats == [paid |-> 0, approved |-> 0, received |-> 0]

\* the dashboard page before an event is opened
NoDashboard ==
  [currentEventView |-> NONE,
   activeFilters |-> [years |-> <<>>, blocks |-> <<>>],
   table |-> <<>>,
   stats |-> ZeroStats,
   rendered |-> "none",
   signedUrlCache |-> NoDocs,
   proof |-> [calls |-> 0, paymentId |-> NULL, found |-> NONE, entry |-> NONE, requested |-> FALSE],
   steps |-> 0]

InitWith(fs, sb) ==
  /\ firestore = fs
  /\ supabase = sb
  /\ organizations = <<>>
  /\ events = <<>>
  /\ payments = <<>>
  /\ fsOrganizations = NoDocs
  /\ fsEvents = NoDocs
  /\ fsPayments = NoDocs
  /\ officerProfiles = NoDocs
  /\ fsOfficerProfiles = NoDocs
  /\ dashboard = NoDashboard
  /\ backups = {}
  /\ studentPage = NoStudentPage
  /\ putInFlight = NONE
  /\ upsertCalls = NoCalls
  /\ bucket = {}
  /\ uploads = {}
  /\ uuid = 0
  /\ clock = 0
  /\ input = <<NULL, NULL>>
  /\ resp = NoResp

Init == \E fs \in BOOLEAN, sb \in BOOLEAN : InitWith(fs, sb)

\* every request is handled at its own instant
Tick == clock' = clock + 1

\* outcomes of a request's Firestore calls (TRUE: Firestore answers while the
\* request runs); nothing to choose when Firestore is not configured
CloudOutcomes == IF firestore THEN BOOLEAN ELSE {TRUE}

\* the status a write route answers once its mirror write has been attempted:
\* a failed mirror write is caught and logged, and the route goes on to res.json
MirrorStatus_Throws(fsOk) == IF firestore /\ ~fsOk THEN 500 ELSE 200

MirrorStatus(fsOk) == 200

\* ------------------------------------------------------------------ helpers
\* Array.prototype.find / findIndex: the first of the matching indexes, 0
\* when nothing matches
First(matching) ==
  IF matching = {} THEN 0 ELSE CHOOSE i \in matching : \A j \in matching : i <= j

\* Array.prototype.unshift
Unshift(seq, x) == <<x>> \o seq

\* remove the element at index i (splice(i, 1))
RemoveAt(seq, i) == SubSeq(seq, 1, i - 1) \o SubSeq(seq, i + 1, Len(seq))

\* doc(id).set(data): create or replace
DocSet(coll, id, data) == [k \in DOMAIN coll \cup {id} |-> IF k = id THEN data ELSE coll[k]]

\* doc(id).delete()
DocDelete(coll, id) == [k \in DOMAIN coll \ {id} |-> coll[k]]

\* doc(id).set(data, { merge: true }): fields of data overwrite, other stored
\* fields stay; a nested map (the event's receiver) is merged field by field
MergeFields(old, data) ==
  [f \in DOMAIN old \cup DOMAIN data |-> IF f \in DOMAIN data THEN data[f] ELSE old[f]]

DocMerge(coll, id, data) ==
  IF id \notin DOMAIN coll THEN DocSet(coll, id, data)
  ELSE LET old == coll[id]
           flat == MergeFields(old, data)
           deep == IF "receiver" \in DOMAIN old /\ "receiver" \in DOMAIN data
                   THEN [flat EXCEPT !.receiver = MergeFields(old.receiver, data.receiver)]
                   ELSE flat
       IN DocSet(coll, id, deep)

\* obj.field, undefined when the key is missing
Get(obj, f) == IF f \in DOMAIN obj THEN obj[f] ELSE NULL

\* delete obj.field
DeleteField(obj, f) == [k \in DOMAIN obj \ {f} |-> obj[k]]

\* Object.assign({}, obj, extra)
Assign(obj, extra) == MergeFields(obj, extra)

\* uploaded files, by the extension of their original name
PngFile == [ext |-> <<".png">>]
JpgFile == [ext |-> <<".jpg">>]
BareFile == [ext |-> EMPTY]

\* URLs handed to clients
LocalUrl(filename) == <<"http://host/uploads/">> \o filename
SignedUrl(path) == <<"signed:">> \o path
PublicUrl(path) == <<"public:">> \o path

SignOutcomes == {"signed", "public", "none"}

\* makeFileUrl: signed URL, else public URL, else null
makeFileUrl(pathOnBucket, sign) ==
  IF ~supabase THEN NULL
  ELSE CASE sign = "signed" -> SignedUrl(pathOnBucket)
         [] sign = "public" -> PublicUrl(pathOnBucket)
         [] OTHER -> NULL

\* ------------------------------------------------------------------ organizations
\* the lookup, had it compared the stored raw name with the canonical key
OrgKey_Name(o) == o.name

OrgKey(o) == IF Truthy(o.canonicalName) THEN o.canonicalName ELSE canonicalOrgName(o.name)

\* upsertOrganizationByName on the file contents `orgs`, the cloud collection
\* `fsOrgs` and the uuid counter `n`; fsOk: the Firestore write succeeds.
\* Yields the returned organization and what the call left behind.
upsertOrganizationByName(orgs, fsOrgs, n, orgName, displayName, fsOk) ==
  IF ~Truthy(orgName) THEN [org |-> NONE, orgs |-> orgs, fsOrgs |-> fsOrgs, uuid |-> n]
  ELSE
    LET canon == canonicalOrgName(orgName)
        idx == First({i \in 1..Len(orgs) : OrgKey(orgs[i]) = canon})
    IN IF idx # 0
       THEN LET existing == orgs[idx]
                changed == Truthy(displayName) /\ ~Truthy(existing.displayName)
                merged == [existing EXCEPT !.displayName = displayName]
            IN IF changed
               THEN [org |-> merged,
                     orgs |-> [orgs EXCEPT ![idx] = merged],
                     fsOrgs |-> IF firestore /\ fsOk
                                THEN DocMerge(fsOrgs, merged.id, merged) ELSE fsOrgs,
                     uuid |-> n]
               ELSE [org |-> existing, orgs |-> orgs, fsOrgs |-> fsOrgs, uuid |-> n]
       ELSE LET org == [id |-> Uuid(n + 1),
                        name |-> orgName,
                        canonicalName |-> canon,
                        displayName |-> IF Truthy(displayName) THEN displayName ELSE orgName]
            IN [org |-> org,
                orgs |-> Unshift(orgs, org),
                fsOrgs |-> IF firestore /\ fsOk THEN DocSet(fsOrgs, org.id, org) ELSE fsOrgs,
                uuid |-> n + 1]

\* organizations.findIndex(o => o.id === ref || o.name === ref)
OrgIndex(orgs, ref) == First({i \in 1..Len(orgs) : orgs[i].id = ref \/ orgs[i].name = ref})

\* getOrgById: Firestore first; a missing document or a failed read falls
\* through to the file, matched by id or by name.  fsUp: the read succeeds.
getOrgById(orgs, fsOrgs, orgId, fsUp) ==
  IF ~Truthy(orgId) THEN NONE
  ELSE IF firestore /\ fsUp /\ orgId \in DOMAIN fsOrgs THEN fsOrgs[orgId]
  ELSE LET idx == OrgIndex(orgs, orgId)
       IN IF idx = 0 THEN NONE ELSE orgs[idx]

\* POST /api/orgs
PostOrg(name, displayName, fsOk) ==
  /\ Tick
  /\ LET r == upsertOrganizationByName(organizations, fsOrganizations, uuid, name, displayName, fsOk)
     IN IF ~Truthy(name)
        THEN /\ resp' = [op |-> "POST /api/orgs", status |-> 400, body |-> NONE,
                         upserts |-> <<>>]
             /\ UNCHANGED <<config, upsertCalls, putInFlight, backups, studentPage, dashboard, profiles, localFile, cloudDocs, blobs, uuid, input>>
        ELSE /\ organizations' = r.orgs
             /\ fsOrganizations' = r.fsOrgs
             /\ uuid' = r.uuid
             /\ resp' = [op |-> "POST /api/orgs", status |-> MirrorStatus(fsOk),
                         req |-> [cloudOk |-> fsOk], body |-> r.org,
                         upserts |-> <<[name |-> name, id |-> r.org.id]>>]
             /\ UNCHANGED <<config, upsertCalls, putInFlight, backups, studentPage, dashboard, profiles, events, payments, fsEvents, fsPayments, blobs, input>>

\* PUT /api/orgs/:id; update fields that the body omits are NULL
PutOrg(id, name, displayName, fsOk) ==
  /\ Tick
  /\ LET idx == OrgIndex(organizations, id)
     IN IF idx = 0
        THEN /\ resp' = [op |-> "PUT /api/orgs/:id", status |-> 404, body |-> NONE,
                         upserts |-> <<>>]
             /\ UNCHANGED <<config, upsertCalls, putInFlight, backups, studentPage, dashboard, profiles, localFile, cloudDocs, blobs, uuid, input>>
        ELSE LET old == organizations[idx]
                 named == IF name # NULL THEN [old EXCEPT !.name = name] ELSE old
                 shown == IF displayName # NULL
                          THEN [named EXCEPT !.displayName = displayName] ELSE named
                 updated == IF Truthy(name)
                            THEN [shown EXCEPT !.canonicalName = canonicalOrgName(name)]
                            ELSE shown
             IN /\ organizations' = [organizations EXCEPT ![idx] = updated]
                /\ fsOrganizations' = IF firestore /\ fsOk
                                      THEN DocMerge(fsOrganizations, updated.id, updated)
                                      ELSE fsOrganizations
                /\ resp' = [op |-> "PUT /api/orgs/:id", status |-> MirrorStatus(fsOk),
                            req |-> [cloudOk |-> fsOk], body |-> updated, upserts |-> <<>>]
                /\ UNCHANGED <<config, upsertCalls, putInFlight, backups, studentPage, dashboard, profiles, events, payments, fsEvents, fsPayments, blobs, uuid, input>>

\* DELETE /api/orgs/:id
DeleteOrg(id, fsOk) ==
  /\ Tick
  /\ LET idx == OrgIndex(organizations, id)
     IN IF idx = 0
        THEN /\ resp' = [op |-> "DELETE /api/orgs/:id", status |-> 404, body |-> NONE, upserts |-> <<>>]
             /\ UNCHANGED <<config, upsertCalls, putInFlight, backups, studentPage, dashboard, profiles, localFile, cloudDocs, blobs, uuid, input>>
        ELSE LET removed == organizations[idx]
             IN /\ organizations' = RemoveAt(organizations, idx)
                /\ fsOrganizations' = IF firestore /\ fsOk
                                      THEN DocDelete(fsOrganizations, removed.id)
                                      ELSE fsOrganizations
                /\ resp' = [op |-> "DELETE /api/orgs/:id", status |-> MirrorStatus(fsOk),
                            req |-> [cloudOk |-> fsOk],
                            body |-> [ok |-> TRUE, id |-> removed.id], upserts |-> <<>>]
                /\ UNCHANGED <<config, upsertCalls, putInFlight, backups, studentPage, dashboard, profiles, events, payments, fsEvents, fsPayments, blobs, uuid, input>>

\* ------------------------------------------------------------------ events
\* events.findIndex(e => e.id === id)
EventIndex(evs, id) == First({i \in 1..Len(evs) : evs[i].id = id})

\* path.extname(req.file.originalname) || '', then ext || '.png'
QrExt(file) == IF Truthy(file.ext) THEN file.ext ELSE <<".png">>

\* the object path, had it been the event id alone
QrCloudPath_IdOnly(eventId, file) == <<"events/receiver_qr/">> \o eventId

\* `events/receiver_qr/${id}${ext || '.png'}`
QrCloudPath(eventId, file) == <<"events/receiver_qr/">> \o eventId \o QrExt(file)

\* `${id}${ext || '.png'}` under uploads/
QrLocalName(eventId, file) == eventId \o QrExt(file)

\* the receiverQR branch of POST /api/events and PUT /api/events/:id.
\* upOk: the bucket upload succeeds; sign: what makeFileUrl then yields.
\* Yields the receiver to store and the blobs left behind.
StoreReceiverQr(receiver, eventId, file, upOk, sign) ==
  IF IsNone(file) THEN [receiver |-> receiver, bucket |-> bucket, uploads |-> uploads]
  ELSE IF supabase
  THEN IF ~upOk
       THEN [receiver |-> receiver, bucket |-> bucket, uploads |-> uploads]
       ELSE LET storedPath == QrCloudPath(eventId, file)
                withPath == Assign(receiver, [qrObjectPath |-> storedPath])
                signed == makeFileUrl(storedPath, sign)
            IN [receiver |-> IF Truthy(signed) THEN Assign(withPath, [qr |-> signed])
                             ELSE withPath,
                bucket |-> bucket \cup {storedPath},
                uploads |-> uploads]
  ELSE [receiver |-> Assign(receiver, [qr |-> LocalUrl(QrLocalName(eventId, file)),
                                       qrObjectIsLocal |-> TRUE,
                                       qrObjectPath |-> QrLocalName(eventId, file)]),
        bucket |-> bucket,
        uploads |-> uploads \cup {QrLocalName(eventId, file)}]

\* POST /api/events (multipart, optional receiverQR file).
\* receiver: the parsed receiver object, NONE when the form has none.
PostEvent(name, org, orgIdFromClient, receiver, file, fsUp, fsOk, upOk, sign) ==
  /\ Tick
  /\ IF ~Truthy(name) \/ (~Truthy(org) /\ ~Truthy(orgIdFromClient))
        THEN /\ resp' = [op |-> "POST /api/events", status |-> 400, body |-> NONE,
                         upserts |-> <<>>]
             /\ UNCHANGED <<config, upsertCalls, putInFlight, backups, studentPage, dashboard, profiles, localFile, cloudDocs, blobs, uuid, input>>
        ELSE
          LET byId == IF Truthy(orgIdFromClient)
                      THEN getOrgById(organizations, fsOrganizations, orgIdFromClient, fsUp)
                      ELSE NONE
              upsert == IsNone(byId) /\ Truthy(org)
              r == IF upsert
                   THEN upsertOrganizationByName(organizations, fsOrganizations, uuid, org, org, fsOk)
                   ELSE [org |-> byId, orgs |-> organizations, fsOrgs |-> fsOrganizations,
                         uuid |-> uuid]
              orgObj == r.org
              id == Uuid(r.uuid + 1)
              stored == StoreReceiverQr(IF IsNone(receiver) THEN EmptyObject ELSE receiver,
                                        id, file, upOk, sign)
              newEvent == [id |-> id,
                           name |-> name,
                           status |-> <<"Open">>,
                           orgId |-> IF ~IsNone(orgObj) /\ Truthy(orgObj.id) THEN orgObj.id ELSE NULL,
                           org |-> IF ~IsNone(orgObj) /\ Truthy(orgObj.name) THEN orgObj.name
                                   ELSE StringOrEmpty(org),
                           receiver |-> stored.receiver]
          IN /\ organizations' = r.orgs
             /\ events' = Unshift(events, newEvent)
             /\ fsOrganizations' = r.fsOrgs
             /\ fsEvents' = IF firestore /\ fsOk THEN DocSet(fsEvents, id, newEvent) ELSE fsEvents
             /\ bucket' = stored.bucket
             /\ uploads' = stored.uploads
             /\ uuid' = r.uuid + 1
             /\ resp' = [op |-> "POST /api/events", status |-> MirrorStatus(fsOk), body |-> newEvent,
                         req |-> [file |-> ~IsNone(file), uploadOk |-> (~IsNone(file) /\ supabase) => upOk,
                                  cloudOk |-> fsOk],
                         upserts |-> IF upsert THEN <<[name |-> org, id |-> orgObj.id]>> ELSE <<>>]
             /\ UNCHANGED <<config, upsertCalls, putInFlight, backups, studentPage, dashboard, profiles, payments, fsPayments, input>>

\* PUT /api/events/:id (multipart, optional receiverQR file); update fields
\* that the body omits are NULL (receiver: NONE).  The handler reads data.json once at the
\* start and writes that snapshot back at the end.
PutEvent(id, name, status, receiver, org, orgId, file, fsUp, fsOk, upOk, sign) ==
  /\ Tick
  /\ LET idx == EventIndex(events, id)
     IN IF idx = 0
        THEN /\ resp' = [op |-> "PUT /api/events/:id", status |-> 404, body |-> NONE,
                         upserts |-> <<>>]
             /\ UNCHANGED <<config, upsertCalls, putInFlight, backups, studentPage, dashboard, profiles, localFile, cloudDocs, blobs, uuid, input>>
        ELSE
          LET old == events[idx]
              byId == IF Truthy(orgId)
                      THEN getOrgById(organizations, fsOrganizations, orgId, fsUp)
                      ELSE NONE
              upsert == IsNone(byId) /\ Truthy(org)
              r == IF upsert
                   THEN upsertOrganizationByName(organizations, fsOrganizations, uuid, org, org, fsOk)
                   ELSE [org |-> byId, orgs |-> organizations, fsOrgs |-> fsOrganizations,
                         uuid |-> uuid]
              orgObj == r.org
              \* if (update.orgId || update.org) { ... }
              resolved == IF ~IsNone(orgObj)
                          THEN [old EXCEPT !.orgId = orgObj.id, !.org = orgObj.name]
                          ELSE old
              \* allowed.forEach: name, status, receiver, org
              named == IF name # NULL THEN [resolved EXCEPT !.name = name] ELSE resolved
              stated == IF status # NULL THEN [named EXCEPT !.status = status] ELSE named
              received == IF ~IsNone(receiver) THEN [stated EXCEPT !.receiver = receiver] ELSE stated
              orged == IF org # NULL THEN [received EXCEPT !.org = org] ELSE received
              stored == StoreReceiverQr(orged.receiver, id, file, upOk, sign)
              updated == [orged EXCEPT !.receiver = stored.receiver]
              \* the trailing upsertOrganizationByName(update.org) runs on the file the
              \* first call wrote
              again == IF Truthy(org)
                       THEN upsertOrganizationByName(r.orgs, r.fsOrgs, r.uuid, org, org, fsOk)
                       ELSE [org |-> NONE, orgs |-> r.orgs, fsOrgs |-> r.fsOrgs, uuid |-> r.uuid]
              calls == (IF upsert THEN <<[name |-> org, id |-> orgObj.id]>> ELSE <<>>)
                       \o (IF Truthy(org) THEN <<[name |-> org, id |-> again.org.id]>> ELSE <<>>)
          IN \* writeDB(db): the snapshot read before the upserts, with the event changed
             /\ organizations' = organizations
             /\ events' = [events EXCEPT ![idx] = updated]
             /\ fsOrganizations' = again.fsOrgs
             /\ fsEvents' = IF firestore /\ fsOk THEN DocMerge(fsEvents, updated.id, updated)
                            ELSE fsEvents
             /\ bucket' = stored.bucket
             /\ uploads' = stored.uploads
             /\ uuid' = again.uuid
             /\ resp' = [op |-> "PUT /api/events/:id", status |-> MirrorStatus(fsOk), body |-> updated,
                         req |-> [file |-> ~IsNone(file), uploadOk |-> (~IsNone(file) /\ supabase) => upOk,
                                  cloudOk |-> fsOk],
                         upserts |-> calls]
             /\ UNCHANGED <<config, upsertCalls, putInFlight, backups, studentPage, dashboard, profiles, payments, fsPayments, input>>

\* DELETE /api/events/:id
DeleteEvent(id, fsOk) ==
  /\ Tick
  /\ LET idx == EventIndex(events, id)
     IN IF idx = 0
        THEN /\ resp' = [op |-> "DELETE /api/events/:id", status |-> 404, body |-> NONE, upserts |-> <<>>]
             /\ UNCHANGED <<config, upsertCalls, putInFlight, backups, studentPage, dashboard, profiles, localFile, cloudDocs, blobs, uuid, input>>
        ELSE LET removed == events[idx]
             IN /\ events' = RemoveAt(events, idx)
                /\ fsEvents' = IF firestore /\ fsOk THEN DocDelete(fsEvents, removed.id)
                               ELSE fsEvents
                /\ resp' = [op |-> "DELETE /api/events/:id", status |-> MirrorStatus(fsOk),
                            req |-> [cloudOk |-> fsOk],
                            body |-> [ok |-> TRUE, id |-> removed.id], upserts |-> <<>>]
                /\ UNCHANGED <<config, upsertCalls, putInFlight, backups, studentPage, dashboard, profiles, organizations, payments, fsOrganizations, fsPayments,
                               blobs, uuid, input>>

\* ------------------------------------------------------------------ identity
\* decoded Firebase ID tokens: { uid, email, role }
Student1 == [uid |-> <<"u1">>, email |-> <<"u1@mail">>, role |-> <<"student">>]
Student2 == [uid |-> <<"u2">>, email |-> <<"u2@mail">>, role |-> <<"student">>]
Officer == [uid |-> <<"u3">>, email |-> <<"u3@mail">>, role |-> <<"officer">>]
Users == {Student1, Student2, Officer}

\* an Authorization header whose token fails verifyIdToken
BadToken == [bad |-> TRUE]

\* verifyFirebaseToken: without firebase-admin the request passes with no
\* req.firebaseUser; with it the header must carry a token that verifies.
\* token: NONE (no header), BadToken, or the user the token decodes to.
\* firebase-admin and Firestore are initialised together.
verifyFirebaseToken(token) ==
  IF ~firestore THEN [ok |-> TRUE, user |-> NONE]
  ELSE IF IsNone(token) \/ token = BadToken THEN [ok |-> FALSE, user |-> NONE]
  ELSE [ok |-> TRUE, user |-> token]

\* req.firebaseUser && req.firebaseUser.<field>
UserField(user, f) == IF IsNone(user) THEN NULL ELSE user[f]

\* ------------------------------------------------------------------ payments
\* JS numbers as far as amounts need them
Number(v) == [kind |-> "number", value |-> v]
NaN == [kind |-> "NaN", value |-> 0]
JsonNull == [kind |-> "null", value |-> 0]

\* parseFloat: optional sign, then the longest run of digits; NaN without one
Digits == {"0", "5"}
DigitValue(c) == IF c = "5" THEN 5 ELSE 0

RECURSIVE DigitPrefix(_, _)
DigitPrefix(s, acc) ==
  IF s # EMPTY /\ Head(s) \in Digits
  THEN DigitPrefix(Tail(s), acc * 10 + DigitValue(Head(s)))
  ELSE acc

parseFloat(s) ==
  LET str == StringOrEmpty(s)
      negative == str # EMPTY /\ Head(str) = "-"
      rest == IF negative THEN Tail(str) ELSE str
  IN IF rest = EMPTY \/ Head(rest) \notin Digits THEN NaN
     ELSE Number(IF negative THEN 0 - DigitPrefix(rest, 0) ELSE DigitPrefix(rest, 0))

\* JSON.stringify writes NaN as null: what data.json and res.json carry
toJSON(payment) ==
  IF payment.amount = NaN THEN [payment EXCEPT !.amount = JsonNull] ELSE payment

\* new Date().toISOString() at clock value t
IsoTime(t) == <<"T", ToString(t)>>

ProofCloudPath(uid, n) == <<"proofs/", uid, "/">> \o Uuid(n)

\* the proof branch of POST /api/payments: upload to the bucket when one is
\* configured, else (or when no URL came out of it) write under uploads/.
\* n: uuids handed out so far.  Yields storedPath, proofUrl and what is left.
StoreProof(user, file, n, upOk, sign) ==
  LET uid == IF Truthy(UserField(user, "uid")) THEN UserField(user, "uid") ELSE <<"anon">>
      tryCloud == file /\ supabase
      objectPath == ProofCloudPath(uid[1], n + 1)
      n1 == IF tryCloud THEN n + 1 ELSE n
      uploaded == tryCloud /\ upOk
      cloudUrl == IF uploaded THEN makeFileUrl(objectPath, sign) ELSE NULL
      filename == Uuid(n1 + 1)
      fallback == file /\ ~Truthy(cloudUrl)
  IN [storedPath |-> IF fallback THEN filename ELSE IF uploaded THEN objectPath ELSE NULL,
      proofUrl |-> IF fallback THEN LocalUrl(filename) ELSE cloudUrl,
      bucket |-> IF uploaded THEN bucket \cup {objectPath} ELSE bucket,
      uploads |-> IF fallback THEN uploads \cup {filename} ELSE uploads,
      uuid |-> IF fallback THEN n1 + 1 ELSE n1]

\* getEventFirestoreById, then the file: the event an eventId names
getEventById(evs, fsEvs, eventId, fsUp) ==
  IF firestore /\ fsUp /\ eventId \in DOMAIN fsEvs THEN fsEvs[eventId]
  ELSE LET idx == EventIndex(evs, eventId)
       IN IF idx = 0 THEN NONE ELSE evs[idx]

\* POST /api/payments (multipart, optional proof file).  Form fields that the
\* client leaves out are NULL.
SubmitPayment(token, name, amount, org, event, orgIdFromClient, eventIdFromClient, submittedByEmail, studentYear, studentBlock, file, fsOk, upOk, sign) ==
  /\ Tick
  /\ LET auth == verifyFirebaseToken(token)
         user == auth.user
         req == [token |-> token, name |-> name, amount |-> amount, org |-> org,
                 event |-> event, orgId |-> orgIdFromClient, eventId |-> eventIdFromClient,
                 file |-> file, uploadOk |-> (file /\ supabase) => upOk]
     IN IF ~auth.ok
        THEN /\ resp' = [op |-> "POST /api/payments", status |-> 401, req |-> req,
                         body |-> [error |-> <<"Missing or invalid token">>], upserts |-> <<>>]
             /\ UNCHANGED <<config, upsertCalls, putInFlight, backups, studentPage, dashboard, profiles, localFile, cloudDocs, blobs, uuid, input>>
        ELSE IF ~Truthy(name) \/ ~Truthy(amount)
        THEN /\ resp' = [op |-> "POST /api/payments", status |-> 400, req |-> req,
                         body |-> [error |-> <<"name and amount are required">>],
                         upserts |-> <<>>]
             /\ UNCHANGED <<config, upsertCalls, putInFlight, backups, studentPage, dashboard, profiles, localFile, cloudDocs, blobs, uuid, input>>
        ELSE
          LET resolvedOrg == IF Truthy(orgIdFromClient) /\ ~Truthy(org)
                             THEN getOrgById(organizations, fsOrganizations, orgIdFromClient, fsOk)
                             ELSE NONE
              orgName == IF ~IsNone(resolvedOrg) /\ Truthy(resolvedOrg.name)
                         THEN resolvedOrg.name ELSE org
              ev == IF Truthy(eventIdFromClient) /\ ~Truthy(event)
                    THEN getEventById(events, fsEvents, eventIdFromClient, fsOk)
                    ELSE NONE
              eventName == IF ~IsNone(ev) /\ Truthy(ev.name) THEN ev.name ELSE event
              stored == StoreProof(user, file, uuid, upOk, sign)
              email == IF Truthy(submittedByEmail) THEN submittedByEmail
                       ELSE UserField(user, "email")
              payment == [id |-> Uuid(stored.uuid + 1),
                          name |-> name,
                          amount |-> parseFloat(amount),
                          org |-> OrNull(orgName),
                          orgId |-> OrNull(orgIdFromClient),
                          event |-> OrNull(eventName),
                          eventId |-> OrNull(eventIdFromClient),
                          proofObjectPath |-> OrNull(stored.storedPath),
                          proofFile |-> OrNull(stored.proofUrl),
                          proofObjectIsLocal |-> Truthy(stored.storedPath) /\ ~supabase,
                          status |-> <<"pending">>,
                          createdAt |-> IsoTime(clock'),
                          studentYear |-> OrNull(studentYear),
                          studentBlock |-> OrNull(studentBlock),
                          submittedByUid |-> UserField(user, "uid"),
                          submittedByEmail |-> OrNull(email)]
          IN /\ payments' = Unshift(payments, toJSON(payment))
             /\ fsPayments' = IF firestore /\ fsOk THEN DocSet(fsPayments, payment.id, payment)
                              ELSE fsPayments
             /\ bucket' = stored.bucket
             /\ uploads' = stored.uploads
             /\ uuid' = stored.uuid + 1
             /\ resp' = [op |-> "POST /api/payments", status |-> MirrorStatus(fsOk),
                         req |-> Assign(req, [cloudOk |-> fsOk]),
                         body |-> toJSON(payment), upserts |-> <<>>]
             /\ UNCHANGED <<config, upsertCalls, putInFlight, backups, studentPage, dashboard, profiles, organizations, events, fsOrganizations, fsEvents, input>>

\* db.payments.find(p => p.id === id)
PaymentIndex(pays, id) == First({i \in 1..Len(pays) : pays[i].id = id})

\* the changes /approve makes to the payment it found
approvePayment(payment, now) ==
  [f \in DOMAIN payment \cup {"approvedAt"} |->
     IF f = "status" THEN <<"approved">>
     ELSE IF f = "approvedAt" THEN now
     ELSE payment[f]]

\* /unapprove without the status assignment
unapprovePayment_KeepStatus(payment) ==
  DeleteField(DeleteField(DeleteField(payment, "approvedAt"), "verifiedBy"), "rejectedAt")

\* the changes /unapprove makes to the payment it found
unapprovePayment(payment) ==
  DeleteField(DeleteField(DeleteField([payment EXCEPT !.status = <<"pending">>],
                                      "approvedAt"), "verifiedBy"), "rejectedAt")

\* POST /api/payments/:id/approve
ApprovePayment(id, fsOk) ==
  /\ Tick
  /\ LET idx == PaymentIndex(payments, id)
         req == [id |-> id]
     IN IF idx = 0
        THEN /\ resp' = [op |-> "POST /api/payments/:id/approve", status |-> 404, req |-> req,
                         body |-> [error |-> <<"not found">>], upserts |-> <<>>]
             /\ UNCHANGED <<config, upsertCalls, putInFlight, backups, studentPage, dashboard, profiles, localFile, cloudDocs, blobs, uuid, input>>
        ELSE LET payment == approvePayment(payments[idx], IsoTime(clock'))
             IN /\ payments' = [payments EXCEPT ![idx] = payment]
                /\ fsPayments' = IF firestore /\ fsOk
                                 THEN DocMerge(fsPayments, payment.id, payment)
                                 ELSE fsPayments
                /\ resp' = [op |-> "POST /api/payments/:id/approve", status |-> MirrorStatus(fsOk),
                            req |-> Assign(req, [cloudOk |-> fsOk]), body |-> payment, upserts |-> <<>>]
                /\ UNCHANGED <<config, upsertCalls, putInFlight, backups, studentPage, dashboard, profiles, organizations, events, fsOrganizations, fsEvents,
                               blobs, uuid, input>>

\* POST /api/payments/:id/unapprove
UnapprovePayment(id, fsOk) ==
  /\ Tick
  /\ LET idx == PaymentIndex(payments, id)
         req == [id |-> id]
     IN IF idx = 0
        THEN /\ resp' = [op |-> "POST /api/payments/:id/unapprove", status |-> 404,
                         req |-> req, body |-> [error |-> <<"not found">>], upserts |-> <<>>]
             /\ UNCHANGED <<config, upsertCalls, putInFlight, backups, studentPage, dashboard, profiles, localFile, cloudDocs, blobs, uuid, input>>
        ELSE LET payment == unapprovePayment(payments[idx])
             IN /\ payments' = [payments EXCEPT ![idx] = payment]
                /\ fsPayments' = IF firestore /\ fsOk
                                 THEN DocMerge(fsPayments, payment.id, payment)
                                 ELSE fsPayments
                /\ resp' = [op |-> "POST /api/payments/:id/unapprove", status |-> MirrorStatus(fsOk),
                            req |-> Assign(req, [cloudOk |-> fsOk]), body |-> payment, upserts |-> <<>>]
                /\ UNCHANGED <<config, upsertCalls, putInFlight, backups, studentPage, dashboard, profiles, organizations, events, fsOrganizations, fsEvents,
                               blobs, uuid, input>>

\* the owner test with the comparisons against the requester left out
isOwner_AnySubmitter(payment, user) ==
  Truthy(payment.submittedByUid) \/ Truthy(payment.submittedByEmail)

\* the owner test of GET /api/payments/:id/proof-url
isOwner(payment, user) ==
  \/ Truthy(payment.submittedByUid) /\ payment.submittedByUid = UserField(user, "uid")
  \/ Truthy(payment.submittedByEmail) /\ payment.submittedByEmail = UserField(user, "email")

isOfficer(user) == UserField(user, "role") = <<"officer">>

\* GET /api/payments/:id/proof-url.  fsUp: the Firestore read answers;
\* signOk: createSignedUrl succeeds, which takes an object under that path.
GetProofUrl(token, id, fsUp, signOk) ==
  /\ Tick
  /\ LET auth == verifyFirebaseToken(token)
         user == auth.user
         req == [token |-> token, id |-> id]
         idx == PaymentIndex(payments, id)
         payment == IF firestore /\ fsUp /\ id \in DOMAIN fsPayments THEN fsPayments[id]
                    ELSE IF idx # 0 THEN payments[idx]
                    ELSE NONE
         answer(status, body) ==
           /\ resp' = [op |-> "GET /api/payments/:id/proof-url", status |-> status,
                       req |-> req, body |-> body, upserts |-> <<>>]
           /\ UNCHANGED <<config, upsertCalls, putInFlight, backups, studentPage, dashboard, profiles, localFile, cloudDocs, blobs, uuid, input>>
     IN IF ~auth.ok THEN answer(401, [error |-> <<"Missing or invalid token">>])
        ELSE IF IsNone(payment) THEN answer(404, [error |-> <<"not found">>])
        ELSE IF ~Truthy(payment.proofObjectPath)
             THEN answer(404, [error |-> <<"no proof object path">>])
        ELSE IF ~isOwner(payment, user) /\ ~isOfficer(user)
             THEN answer(403, [error |-> <<"forbidden">>])
        ELSE IF payment.proofObjectIsLocal
             THEN answer(200, [url |-> LocalUrl(payment.proofObjectPath), local |-> TRUE])
        ELSE IF ~supabase THEN answer(500, [error |-> <<"storage not configured">>])
        ELSE IF ~signOk \/ payment.proofObjectPath \notin bucket
             THEN answer(500, [error |-> <<"could not create signed url">>])
        ELSE answer(200, [url |-> SignedUrl(payment.proofObjectPath), local |-> FALSE])

\* ------------------------------------------------------------------ reads
\* a request that writes nothing: res.status(status).json(body)
Answer(op, status, req, body) ==
  /\ Tick
  /\ resp' = [op |-> op, status |-> status, req |-> req, body |-> body, upserts |-> <<>>]
  /\ UNCHANGED <<config, upsertCalls, putInFlight, backups, studentPage, dashboard, profiles, localFile, cloudDocs, blobs, uuid, input>>

\* snap.docs.map(d => d.data()): the documents of a collection, in id order
RECURSIVE DocsFrom(_, _)
DocsFrom(coll, n) ==
  IF n > uuid THEN <<>>
  ELSE (IF Uuid(n) \in DOMAIN coll THEN <<coll[Uuid(n)]>> ELSE <<>>) \o DocsFrom(coll, n + 1)

DocsList(coll) == DocsFrom(coll, 1)

\* the merge dedupeOrgsArray does when the canonical name is already in its map
MergeOrgEntry(existing, o) ==
  LET withId == IF ~Truthy(Get(existing, "id")) /\ Truthy(Get(o, "id"))
                THEN Assign(existing, [id |-> o.id]) ELSE existing
      withDisplay ==
        IF /\ ~Truthy(Get(withId, "displayName")) \/ Get(withId, "displayName") = Get(withId, "name")
           /\ Truthy(Get(o, "displayName"))
           /\ Get(o, "displayName") # Get(o, "name")
        THEN Assign(withId, [displayName |-> o.displayName]) ELSE withId
  IN IF /\ ~Truthy(Get(withDisplay, "name")) \/ Get(withDisplay, "name") = Get(withDisplay, "displayName")
        /\ Truthy(Get(o, "name"))
        /\ Get(o, "name") # Get(o, "displayName")
     THEN Assign(withDisplay, [name |-> o.name]) ELSE withDisplay

\* dedupeOrgsArray, with the entries kept so far in map order
RECURSIVE dedupeOrgsInto(_, _)
dedupeOrgsInto(orgs, kept) ==
  IF orgs = <<>> THEN kept
  ELSE LET o == Head(orgs)
           name == IF Truthy(Get(o, "name")) THEN o.name
                   ELSE IF Truthy(Get(o, "displayName")) THEN o.displayName
                   ELSE StringOrEmpty(Get(o, "id"))
           canon == canonicalOrgName(IF Truthy(Get(o, "canonicalName")) THEN o.canonicalName
                                     ELSE name)
           idx == First({i \in 1..Len(kept) : kept[i].canonicalName = canon})
       IN IF canon = EMPTY THEN dedupeOrgsInto(Tail(orgs), kept)
          ELSE IF idx = 0
          THEN dedupeOrgsInto(Tail(orgs), Append(kept, Assign(o, [canonicalName |-> canon])))
          ELSE dedupeOrgsInto(Tail(orgs), [kept EXCEPT ![idx] = MergeOrgEntry(kept[idx], o)])

\* a variant that stamps the canonical name on every entry and merges none
dedupeOrgsArray_KeepAll(orgs) ==
  [i \in 1..Len(orgs) |->
     Assign(orgs[i], [canonicalName |->
       canonicalOrgName(IF Truthy(Get(orgs[i], "canonicalName")) THEN orgs[i].canonicalName
                        ELSE orgs[i].name)])]

dedupeOrgsArray(orgs) == dedupeOrgsInto(orgs, <<>>)

\* Array.from(new Set(db.events.map(e => e.org).filter(Boolean)))
RECURSIVE EventOrgNames(_, _)
EventOrgNames(evs, seen) ==
  IF evs = <<>> THEN seen
  ELSE LET n == Head(evs).org
       IN IF Truthy(n) /\ \A i \in 1..Len(seen) : seen[i] # n
          THEN EventOrgNames(Tail(evs), Append(seen, n))
          ELSE EventOrgNames(Tail(evs), seen)

\* the organization derived from an event's org name
DerivedOrg(n) == [id |-> n, name |-> n, displayName |-> n, canonicalName |-> canonicalOrgName(n)]

\* GET /api/orgs.  fsUp: the Firestore read answers.
GetOrgs(fsUp) ==
  LET req == [cloudUp |-> fsUp]
      names == EventOrgNames(events, <<>>)
      local == IF organizations = <<>> /\ events # <<>>
               THEN [i \in 1..Len(names) |-> DerivedOrg(names[i])]
               ELSE organizations
  IN IF firestore /\ fsUp
     THEN Answer("GET /api/orgs", 200, req, dedupeOrgsArray(DocsList(fsOrganizations)))
     ELSE Answer("GET /api/orgs", 200, req, dedupeOrgsArray(local))

\* GET /api/orgs/:id
GetOrg(id, fsUp) ==
  LET req == [id |-> id, cloudUp |-> fsUp]
      idx == OrgIndex(organizations, id)
  IN IF firestore /\ fsUp /\ id \in DOMAIN fsOrganizations
     THEN Answer("GET /api/orgs/:id", 200, req, fsOrganizations[id])
     ELSE IF idx = 0 THEN Answer("GET /api/orgs/:id", 404, req, [error |-> <<"not found">>])
     ELSE Answer("GET /api/orgs/:id", 200, req, organizations[idx])

\* events.filter(ev => ev.orgId === orgIdFilter) / (ev => ev.org === orgFilter);
\* a NULL filter lets every event through
RECURSIVE FilterEvents(_, _, _)
FilterEvents(evs, orgIdFilter, orgFilter) ==
  IF evs = <<>> THEN <<>>
  ELSE LET ev == Head(evs)
           keep == /\ orgIdFilter # NULL => ev.orgId = orgIdFilter
                   /\ orgFilter # NULL => ev.org = orgFilter
       IN (IF keep THEN <<ev>> ELSE <<>>) \o FilterEvents(Tail(evs), orgIdFilter, orgFilter)

\* listEventsFirestore: where('orgId', ...) else where('org', ...)
listEventsFirestore(orgIdFilter, orgFilter) ==
  FilterEvents(DocsList(fsEvents), orgIdFilter, IF orgIdFilter # NULL THEN NULL ELSE orgFilter)

\* GET /api/events?org=&orgId=
GetEvents(org, orgId, fsUp) ==
  LET orgFilter == OrNull(org)
      orgIdFilter == OrNull(orgId)
      req == [org |-> org, orgId |-> orgId, cloudUp |-> fsUp]
  IN IF firestore /\ fsUp
     THEN Answer("GET /api/events", 200, req, listEventsFirestore(orgIdFilter, orgFilter))
     ELSE Answer("GET /api/events", 200, req, FilterEvents(events, orgIdFilter, orgFilter))

\* the fresh receiver.qr that GET /api/events/:id puts on the event it returns
InjectQr(ev, sign) ==
  LET path == Get(ev.receiver, "qrObjectPath")
      signed == IF Truthy(path) THEN makeFileUrl(path, sign) ELSE NULL
  IN IF Truthy(signed) THEN [ev EXCEPT !.receiver = Assign(ev.receiver, [qr |-> signed])]
     ELSE ev

\* GET /api/events/:id
GetEvent(id, fsUp, sign) ==
  LET req == [id |-> id, cloudUp |-> fsUp]
      idx == EventIndex(events, id)
  IN IF firestore /\ fsUp /\ id \in DOMAIN fsEvents
     THEN Answer("GET /api/events/:id", 200, req, InjectQr(fsEvents[id], sign))
     ELSE IF idx = 0 THEN Answer("GET /api/events/:id", 404, req, [error |-> <<"not found">>])
     ELSE Answer("GET /api/events/:id", 200, req, InjectQr(events[idx], sign))

\* ------------------------------------------------------------------ payment listing
\* String.prototype.replace(/\s+/g, ' ')
RECURSIVE CollapseSpaces(_)
CollapseSpaces(s) ==
  IF s = EMPTY THEN EMPTY
  ELSE IF Len(s) >= 2 /\ s[1] = " " /\ s[2] = " " THEN CollapseSpaces(Tail(s))
  ELSE <<Head(s)>> \o CollapseSpaces(Tail(s))

normalizeFilterValue(val) == ToLowerCase(CollapseSpaces(Trim(StringOrEmpty(val))))

\* String.prototype.split(','), the piece being read in cur
RECURSIVE SplitCommas(_, _)
SplitCommas(s, cur) ==
  IF s = EMPTY THEN <<cur>>
  ELSE IF Head(s) = "," THEN <<cur>> \o SplitCommas(Tail(s), EMPTY)
  ELSE SplitCommas(Tail(s), Append(cur, Head(s)))

\* .map(s => s.trim()).filter(Boolean)
RECURSIVE TrimmedNonEmpty(_)
TrimmedNonEmpty(parts) ==
  IF parts = <<>> THEN <<>>
  ELSE (IF Trim(Head(parts)) = EMPTY THEN <<>> ELSE <<Trim(Head(parts))>>)
         \o TrimmedNonEmpty(Tail(parts))

\* toArrayOrNull of a query parameter given once, as a comma-separated string:
\* null (NONE) or an array, held in the field items
toArrayOrNull(raw) ==
  IF ~Truthy(raw) THEN NONE ELSE [items |-> TrimmedNonEmpty(SplitCommas(raw, EMPTY))]

\* new Set(arr.map(normalize))
NormalizedSet(arr) ==
  IF IsNone(arr) THEN {} ELSE {normalizeFilterValue(arr.items[i]) : i \in 1..Len(arr.items)}

\* q.where('eventId', '==', eventId) / filter(p => p.eventId === eventId || p.event === eventId)
RECURSIVE PaymentsOfEvent(_, _, _)
PaymentsOfEvent(pays, eventId, byName) ==
  IF pays = <<>> THEN <<>>
  ELSE LET p == Head(pays)
       IN (IF p.eventId = eventId \/ (byName /\ p.event = eventId) THEN <<p>> ELSE <<>>)
            \o PaymentsOfEvent(Tail(pays), eventId, byName)

\* the year/block predicate of the filtered listing
MatchesFilters(p, years, blocks) ==
  /\ years # {} => normalizeFilterValue(p.studentYear) \in years
  /\ blocks # {} => normalizeFilterValue(p.studentBlock) \in blocks

RECURSIVE FilterPayments(_, _, _)
FilterPayments(pays, years, blocks) ==
  IF pays = <<>> THEN <<>>
  ELSE (IF MatchesFilters(Head(pays), years, blocks) THEN <<Head(pays)>> ELSE <<>>)
         \o FilterPayments(Tail(pays), years, blocks)

\* p.proofFile = url when the object store yields a URL for p.proofObjectPath
InjectProofUrls(pays, sign) ==
  [i \in 1..Len(pays) |->
     IF supabase /\ Truthy(pays[i].proofObjectPath)
          /\ Truthy(makeFileUrl(pays[i].proofObjectPath, sign))
     THEN [pays[i] EXCEPT !.proofFile = makeFileUrl(pays[i].proofObjectPath, sign)]
     ELSE pays[i]]

\* parseFloat(p.amount || 0) || 0
AmountValue(p) == IF p.amount.kind = "number" THEN p.amount.value ELSE 0

RECURSIVE SumAmounts(_)
SumAmounts(pays) == IF pays = <<>> THEN 0 ELSE AmountValue(Head(pays)) + SumAmounts(Tail(pays))

Totals(pays) ==
  [totalCount |-> Len(pays),
   approvedCount |-> Cardinality({i \in 1..Len(pays) : ToLowerCase(pays[i].status) = <<"approved">>}),
   totalAmount |-> SumAmounts(pays)]

\* availableFilters: the distinct trimmed years and blocks of the source, each
\* a sorted array without duplicates, held here as a set
AvailableFilters(pays) ==
  [years |-> {Trim(pays[i].studentYear) : i \in {j \in 1..Len(pays) : Truthy(pays[j].studentYear)}},
   blocks |-> {Trim(pays[i].studentBlock) : i \in {j \in 1..Len(pays) : Truthy(pays[j].studentBlock)}}]

\* res.json of a payment array
ToJsonAll(pays) == [i \in 1..Len(pays) |-> toJSON(pays[i])]

\* hasFilter of GET /api/payments
HasFilter(eventIdParam, rawYears, rawBlocks) ==
  LET yearsArr == toArrayOrNull(rawYears)
      blocksArr == toArrayOrNull(rawBlocks)
  IN \/ Truthy(eventIdParam)
     \/ ~IsNone(yearsArr) /\ yearsArr.items # <<>>
     \/ ~IsNone(blocksArr) /\ blocksArr.items # <<>>

\* the body GET /api/payments?eventId=&year=&block= answers with
PaymentsResponse(eventIdParam, rawYears, rawBlocks, fsUp, sign) ==
  LET eventId == OrNull(eventIdParam)
      paymentsSource ==
        IF firestore /\ fsUp
        THEN IF eventId # NULL THEN PaymentsOfEvent(DocsList(fsPayments), eventId, FALSE)
             ELSE DocsList(fsPayments)
        ELSE IF eventId # NULL THEN PaymentsOfEvent(payments, eventId, TRUE)
             ELSE payments
      filtered == InjectProofUrls(FilterPayments(paymentsSource,
                                                 NormalizedSet(toArrayOrNull(rawYears)),
                                                 NormalizedSet(toArrayOrNull(rawBlocks))), sign)
  IN IF ~HasFilter(eventIdParam, rawYears, rawBlocks)
     THEN ToJsonAll(InjectProofUrls(paymentsSource, sign))
     ELSE [payments |-> ToJsonAll(filtered),
           totals |-> Totals(filtered),
           availableFilters |-> AvailableFilters(paymentsSource)]

\* GET /api/payments?eventId=&year=&block=
GetPayments(eventIdParam, rawYears, rawBlocks, fsUp, sign) ==
  Answer("GET /api/payments", 200,
         [eventId |-> eventIdParam, year |-> rawYears, block |-> rawBlocks, cloudUp |-> fsUp],
         PaymentsResponse(eventIdParam, rawYears, rawBlocks, fsUp, sign))

\* ------------------------------------------------------------------ officer profiles
canonicalKeyForOrg(orgName) == canonicalOrgName(StringOrEmpty(orgName))

\* Object.keys(map).map(k => map[k]) and snap.docs.map(d => d.data()): the
\* values of a keyed store, in one fixed order of its keys
RECURSIVE ValuesOf(_, _)
ValuesOf(coll, keys) ==
  IF keys = {} THEN <<>>
  ELSE LET k == CHOOSE x \in keys : TRUE
       IN <<coll[k]>> \o ValuesOf(coll, keys \ {k})

\* getOfficerProfileFromFirestoreByKey: null when the document is missing and
\* when the read fails
getOfficerProfileFromFirestoreByKey(orgKey, fsUp) ==
  IF firestore /\ fsUp /\ orgKey \in DOMAIN fsOfficerProfiles
  THEN fsOfficerProfiles[orgKey] ELSE NONE

\* listOfficerProfilesFromFirestore: [] when not configured and when the read fails
listOfficerProfilesFromFirestore(fsUp) ==
  IF firestore /\ fsUp THEN ValuesOf(fsOfficerProfiles, DOMAIN fsOfficerProfiles) ELSE <<>>

\* doc ? [doc] : []
OneOrNone(doc) == IF IsNone(doc) THEN <<>> ELSE <<doc>>

\* GET /api/officer-profiles?org=&orgId=
GetOfficerProfiles(org, orgId, fsUp) ==
  LET orgQuery == OrNull(org)
      orgIdQuery == OrNull(orgId)
      key == IF orgIdQuery # NULL THEN orgIdQuery ELSE canonicalKeyForOrg(orgQuery)
      req == [org |-> org, orgId |-> orgId, cloudUp |-> fsUp]
      local == IF key \in DOMAIN officerProfiles THEN officerProfiles[key] ELSE NONE
  IN IF firestore
     THEN IF orgIdQuery # NULL \/ orgQuery # NULL
          THEN Answer("GET /api/officer-profiles", 200, req,
                      OneOrNone(getOfficerProfileFromFirestoreByKey(key, fsUp)))
          ELSE Answer("GET /api/officer-profiles", 200, req,
                      listOfficerProfilesFromFirestore(fsUp))
     ELSE IF orgIdQuery # NULL \/ orgQuery # NULL
          THEN Answer("GET /api/officer-profiles", 200, req, OneOrNone(local))
          ELSE Answer("GET /api/officer-profiles", 200, req,
                      ValuesOf(officerProfiles, DOMAIN officerProfiles))

\* GET /api/officer-profiles/:id
GetOfficerProfile(id, fsUp) ==
  LET req == [id |-> id, cloudUp |-> fsUp]
      doc == getOfficerProfileFromFirestoreByKey(id, fsUp)
      local == IF id \in DOMAIN officerProfiles THEN officerProfiles[id]
               ELSE IF canonicalKeyForOrg(id) \in DOMAIN officerProfiles
               THEN officerProfiles[canonicalKeyForOrg(id)]
               ELSE NONE
      found == IF firestore THEN doc ELSE local
  IN IF IsNone(found)
     THEN Answer("GET /api/officer-profiles/:id", 404, req, [error |-> <<"not found">>])
     ELSE Answer("GET /api/officer-profiles/:id", 200, req, found)

\* POST /api/officer-profiles {org, orgId, profile: {designation}}.  The last
\* statement reads `map`, which is declared inside the try block of the local
\* write and is out of scope there: the ReferenceError is caught by the route's
\* catch, which answers 500 after both writes.
PostOfficerProfile(token, org, orgId, designation, fsOk) ==
  /\ Tick
  /\ LET auth == verifyFirebaseToken(token)
         req == [token |-> token, org |-> org, orgId |-> orgId, designation |-> designation]
         key == IF Truthy(orgId) THEN orgId ELSE canonicalKeyForOrg(org)
         \* body.profile: a designation of NULL is a profile without that field
         profile == IF designation = NULL THEN EmptyObject ELSE [designation |-> designation]
         profileObj == Assign(profile, [org |-> StringOrEmpty(org),
                                        orgId |-> OrNull(orgId),
                                        updatedAt |-> IsoTime(clock')])
         old == IF key \in DOMAIN officerProfiles THEN officerProfiles[key] ELSE EmptyObject
         toSave == Assign(profileObj, [id |-> key, orgKey |-> key])
     IN IF ~auth.ok
        THEN /\ resp' = [op |-> "POST /api/officer-profiles", status |-> 401, req |-> req,
                         body |-> [error |-> <<"Missing or invalid token">>], upserts |-> <<>>]
             /\ UNCHANGED <<config, upsertCalls, putInFlight, backups, studentPage, dashboard, profiles, localFile, cloudDocs, blobs, uuid, input>>
        ELSE IF ~Truthy(org) /\ ~Truthy(orgId)
        THEN /\ resp' = [op |-> "POST /api/officer-profiles", status |-> 400, req |-> req,
                         body |-> [error |-> <<"org or orgId is required">>], upserts |-> <<>>]
             /\ UNCHANGED <<config, upsertCalls, putInFlight, backups, studentPage, dashboard, profiles, localFile, cloudDocs, blobs, uuid, input>>
        ELSE /\ officerProfiles' = DocSet(officerProfiles, key, Assign(old, profileObj))
             /\ fsOfficerProfiles' = IF firestore /\ fsOk
                                     THEN DocMerge(fsOfficerProfiles, key, toSave)
                                     ELSE fsOfficerProfiles
             /\ resp' = [op |-> "POST /api/officer-profiles", status |-> 500, req |-> req,
                         body |-> [error |-> <<"Server error">>], upserts |-> <<>>]
             /\ UNCHANGED <<config, upsertCalls, putInFlight, backups, studentPage, dashboard, localFile, cloudDocs, blobs, uuid, input>>

\* ------------------------------------------------------------------ officer dashboard
\* localStorage of the officer's browser: officerOrg, officerOrgId, paymentHistory
OfficerOrg == <<"e">>
OfficerOrgId == EMPTY
paymentHistory == <<>>

\* the year chips the filter drawer always shows
FIXED_YEARS == {<<"1">>, <<"2">>}

normalizeForMatch(s) == ToLowerCase(CollapseSpaces(Trim(StringOrEmpty(s))))

\* String(v || '').trim().toLowerCase()
TrimLower(v) == ToLowerCase(Trim(StringOrEmpty(v)))

\* Array.prototype.join(',')
RECURSIVE JoinCommas(_)
JoinCommas(arr) ==
  IF arr = <<>> THEN EMPTY
  ELSE IF Len(arr) = 1 THEN arr[1]
  ELSE arr[1] \o <<",">> \o JoinCommas(Tail(arr))

\* params.append('year', years.join(',')) only when there are years
JoinedParam(arr) == IF arr = <<>> THEN NULL ELSE JoinCommas(arr)

\* fetchAllPaymentsFromServer: the array of GET /api/payments, [] on any failure
fetchAllPaymentsFromServer(fetchOk, fsUp) ==
  IF fetchOk THEN PaymentsResponse(NULL, NULL, NULL, fsUp, "none") ELSE <<>>

\* fetchPaymentsWithFilters: the payload of GET /api/payments?eventId=&year=&block=
fetchPaymentsWithFilters(eventId, years, blocks, fsUp) ==
  PaymentsResponse(eventId, JoinedParam(years), JoinedParam(blocks), fsUp, "none")

PayloadIsArray(eventId, years, blocks) ==
  ~HasFilter(eventId, JoinedParam(years), JoinedParam(blocks))

matchesOrg(p) ==
  \/ Truthy(OfficerOrgId) /\ p.orgId = OfficerOrgId
  \/ p.org = OfficerOrg

\* matchesEvent of renderVerifyPaymentsForEvent
matchesEvent(p, ev) ==
  IF Truthy(ev.id) THEN p.eventId = ev.id \/ p.event = ev.name
  ELSE p.event = ev.name \/ p.name = ev.name

\* matchesEvent of applyFiltersForCurrentEvent
matchesCurrentEvent(p, ev) ==
  p.eventId = ev.id \/ p.event = ev.name \/ p.name = ev.name

\* the membership test of a client-side year/block filter; an empty list lets
\* every payment through
InList(v, list) == list = <<>> \/ \E i \in 1..Len(list) : list[i] = v

\* the client-side filters of renderVerifyPaymentsForEvent: by organization and
\* event, then by the trimmed, lower-cased years and blocks
RECURSIVE FilterForEvent(_, _, _, _)
FilterForEvent(pays, ev, years, blocks) ==
  IF pays = <<>> THEN <<>>
  ELSE LET p == Head(pays)
           keep == /\ matchesOrg(p)
                   /\ matchesEvent(p, ev)
                   /\ InList(TrimLower(p.studentYear), [i \in 1..Len(years) |-> TrimLower(years[i])])
                   /\ InList(TrimLower(p.studentBlock), [i \in 1..Len(blocks) |-> TrimLower(blocks[i])])
       IN (IF keep THEN <<p>> ELSE <<>>) \o FilterForEvent(Tail(pays), ev, years, blocks)

\* the client-side filters of applyFiltersForCurrentEvent
RECURSIVE FilterForCurrentEvent(_, _, _, _)
FilterForCurrentEvent(pays, ev, years, blocks) ==
  IF pays = <<>> THEN <<>>
  ELSE LET p == Head(pays)
           keep == /\ matchesOrg(p)
                   /\ matchesCurrentEvent(p, ev)
                   /\ InList(normalizeForMatch(p.studentYear),
                             [i \in 1..Len(years) |-> normalizeForMatch(years[i])])
                   /\ InList(normalizeForMatch(p.studentBlock),
                             [i \in 1..Len(blocks) |-> normalizeForMatch(blocks[i])])
       IN (IF keep THEN <<p>> ELSE <<>>) \o FilterForCurrentEvent(Tail(pays), ev, years, blocks)

\* the key that identifies the submitter of a payment on the dashboard
SubmitterKey(p) ==
  IF Truthy(p.submittedByUid) THEN p.submittedByUid
  ELSE IF Truthy(p.submittedByEmail) THEN p.submittedByEmail
  ELSE <<":", ToString(AmountValue(p))>>

\* the three stat figures computed from a payment array on the client
ClientStats(pays) ==
  LET approved == {i \in 1..Len(pays) : ToLowerCase(pays[i].status) = <<"approved">>}
      sumApproved[n \in 0..Len(pays)] ==
        IF n = 0 THEN 0
        ELSE sumApproved[n - 1] + (IF n \in approved THEN AmountValue(pays[n]) ELSE 0)
  IN [paid |-> Cardinality({SubmitterKey(pays[i]) : i \in 1..Len(pays)}),
      approved |-> Cardinality(approved),
      received |-> sumApproved[Len(pays)]]

\* the stat cards written from the server's totals
StatsFromTotals(pays, totals) ==
  [paid |-> IF totals.totalCount # 0 THEN totals.totalCount ELSE Len(pays),
   approved |-> totals.approvedCount,
   received |-> totals.totalAmount]

\* the stat cards after renderPaymentsAndStatsFromArray, were updateStats ignored
StatCards_AlwaysUpdated(old, paymentsArray, totals, updateStats) ==
  IF ~IsNone(totals) THEN StatsFromTotals(paymentsArray, totals) ELSE ClientStats(paymentsArray)

\* the stat cards after renderPaymentsAndStatsFromArray
StatCards(old, paymentsArray, totals, updateStats) ==
  IF ~updateStats THEN old
  ELSE IF ~IsNone(totals) THEN StatsFromTotals(paymentsArray, totals)
  ELSE ClientStats(paymentsArray)

\* renderPaymentsAndStatsFromArray: the stat cards when updateStats, then one
\* table row per payment
renderPaymentsAndStatsFromArray(d, paymentsArray, totals, updateStats) ==
  [d EXCEPT !.stats = StatCards(d.stats, paymentsArray, totals, updateStats),
            !.table = [i \in 1..Len(paymentsArray) |-> paymentsArray[i].id],
            !.rendered = IF updateStats THEN "unfiltered" ELSE "filtered"]

\* renderVerifyPaymentsForEvent(eventName, eventId) on the page d
renderVerifyPaymentsForEvent(d, ev, fetchOk, fsUp) ==
  LET years == d.activeFilters.years
      blocks == d.activeFilters.blocks
      all == fetchAllPaymentsFromServer(fetchOk, fsUp)
      serverFiltered == FilterForEvent(all, ev, <<>>, <<>>)
      toShow == IF serverFiltered = <<>> /\ paymentHistory # <<>>
                THEN FilterForEvent(paymentHistory, ev, <<>>, <<>>)
                ELSE serverFiltered
      payload == fetchPaymentsWithFilters(ev.id, years, blocks, fsUp)
  IN IF years = <<>> /\ blocks = <<>>
     THEN renderPaymentsAndStatsFromArray(d, toShow, NONE, TRUE)
     ELSE IF ~fetchOk
     THEN renderPaymentsAndStatsFromArray(d, FilterForEvent(all, ev, years, blocks), NONE, FALSE)
     ELSE IF PayloadIsArray(ev.id, years, blocks)
     THEN renderPaymentsAndStatsFromArray(d, FilterForEvent(payload, ev, <<>>, <<>>), NONE, FALSE)
     ELSE renderPaymentsAndStatsFromArray(d, payload.payments, payload.totals, FALSE)

\* applyFiltersForCurrentEvent(years, blocks) on the page d
applyFiltersForCurrentEvent(d, years, blocks, fetchOk, fsUp) ==
  LET ev == d.currentEventView
      set == [d EXCEPT !.activeFilters = [years |-> years, blocks |-> blocks]]
      payload == fetchPaymentsWithFilters(ev.id, years, blocks, fsUp)
      all == fetchAllPaymentsFromServer(fetchOk, fsUp)
  IN IF IsNone(ev) THEN d
     ELSE IF ~fetchOk
     THEN renderPaymentsAndStatsFromArray(set, FilterForCurrentEvent(all, ev, years, blocks),
                                          NONE, FALSE)
     ELSE IF PayloadIsArray(ev.id, years, blocks)
     THEN renderPaymentsAndStatsFromArray(set, FilterForCurrentEvent(payload, ev, years, blocks),
                                          NONE, FALSE)
     ELSE renderPaymentsAndStatsFromArray(set, payload.payments, payload.totals, FALSE)

\* a chip click: the value is pushed, or spliced out when already selected
ToggleChip(list, val) ==
  LET idx == First({i \in 1..Len(list) : normalizeForMatch(list[i]) = normalizeForMatch(val)})
  IN IF idx = 0 THEN Append(list, val) ELSE RemoveAt(list, idx)

\* one step of the page: the handler's new page, nothing of the server changes
PageStep(d) ==
  /\ dashboard.steps < MaxDashSteps
  /\ dashboard' = [d EXCEPT !.steps = dashboard.steps + 1]
  /\ UNCHANGED <<config, upsertCalls, putInFlight, backups, studentPage, profiles, localFile, cloudDocs, blobs, uuid, clock, input, resp>>

\* openEventPaymentsView(eventObj): the filters are reset, then the event's
\* payments are rendered
OpenEventPaymentsView(ev, fetchOk, fsUp) ==
  PageStep(renderVerifyPaymentsForEvent(
             [dashboard EXCEPT !.currentEventView = ev,
                               !.activeFilters = [years |-> <<>>, blocks |-> <<>>]],
             ev, fetchOk, fsUp))

\* a click on a year chip of the filter drawer
ClickYearChip(y) ==
  /\ ~IsNone(dashboard.currentEventView)
  /\ PageStep([dashboard EXCEPT !.activeFilters.years = ToggleChip(@, y)])

\* a click on a block chip of the filter drawer
ClickBlockChip(b) ==
  /\ ~IsNone(dashboard.currentEventView)
  /\ PageStep([dashboard EXCEPT !.activeFilters.blocks = ToggleChip(@, b)])

\* the drawer's Clear button
ClickClear ==
  /\ ~IsNone(dashboard.currentEventView)
  /\ PageStep([dashboard EXCEPT !.activeFilters = [years |-> <<>>, blocks |-> <<>>]])

\* the drawer's Done button
ClickDone(fetchOk, fsUp) ==
  /\ ~IsNone(dashboard.currentEventView)
  /\ PageStep(applyFiltersForCurrentEvent(dashboard, dashboard.activeFilters.years,
                                          dashboard.activeFilters.blocks, fetchOk, fsUp))

\* the re-render that follows a status update of a payment of the open event
ReRenderCurrentEvent(fetchOk, fsUp) ==
  /\ ~IsNone(dashboard.currentEventView)
  /\ PageStep(renderVerifyPaymentsForEvent(dashboard, dashboard.currentEventView, fetchOk, fsUp))

\* ------------------------------------------------------------------ requests
\* organization names clients send: two spellings of one name, and an accented one
OrgNames == {<<"e">>, <<" ", "E">>, <<"e^">>}
EventNames == {<<"fee">>}
UnknownId == Uuid(0)

OrgRefs == {organizations[i].id : i \in 1..Len(organizations)} \cup {UnknownId, <<"e">>}
EventRefs == {events[i].id : i \in 1..Len(events)} \cup {UnknownId}

\* ------------------------------------------------------------------ canonicalizers
CanonInputs == Strings \cup {NULL}

InitCanon ==
  /\ firestore = FALSE
  /\ supabase = FALSE
  /\ organizations = <<>>
  /\ events = <<>>
  /\ payments = <<>>
  /\ fsOrganizations = NoDocs
  /\ fsEvents = NoDocs
  /\ fsPayments = NoDocs
  /\ officerProfiles = NoDocs
  /\ fsOfficerProfiles = NoDocs
  /\ dashboard = NoDashboard
  /\ backups = {}
  /\ studentPage = NoStudentPage
  /\ putInFlight = NONE
  /\ upsertCalls = NoCalls
  /\ bucket = {}
  /\ uploads = {}
  /\ uuid = 0
  /\ clock = 0
  /\ input \in CanonInputs \X CanonInputs
  /\ resp = NoResp

CallCanonicalOrgName ==
  /\ resp' = [op |-> "canonicalOrgName", status |-> 0,
              body |-> <<canonicalOrgName(input[1]), canonicalOrgName(input[2])>>,
              upserts |-> <<>>]
  /\ UNCHANGED <<config, upsertCalls, putInFlight, backups, studentPage, dashboard, profiles, localFile, cloudDocs, blobs, uuid, clock, input>>

CallCanonicalizeName ==
  /\ resp' = [op |-> "canonicalizeName", status |-> 0,
              body |-> <<canonicalizeName(input[1]), canonicalizeName(input[2])>>,
              upserts |-> <<>>]
  /\ UNCHANGED <<config, upsertCalls, putInFlight, backups, studentPage, dashboard, profiles, localFile, cloudDocs, blobs, uuid, clock, input>>

NextCanon == CallCanonicalOrgName \/ CallCanonicalizeName

SpecCanon == InitCanon /\ [][NextCanon]_vars

\* ------------------------------------------------------------------ organizations and events
NextOrgs ==
  \/ /\ clock < MaxOrgRequests
     /\ \E name \in OrgNames \cup {NULL}, fsOk \in CloudOutcomes : PostOrg(name, NULL, fsOk)
  \/ /\ clock < MaxOrgRequests
     /\ \E id \in OrgRefs, name \in OrgNames \cup {NULL}, fsOk \in CloudOutcomes :
          PutOrg(id, name, NULL, fsOk)
  \/ /\ clock < MaxOrgRequests
     /\ \E id \in OrgRefs, fsOk \in CloudOutcomes : DeleteOrg(id, fsOk)
  \/ /\ clock < MaxOrgRequests
     /\ \E name \in EventNames, org \in OrgNames \cup {NULL}, orgId \in OrgRefs \cup {NULL},
           up \in CloudOutcomes :
          PostEvent(name, org, orgId, NONE, NONE, up, up, TRUE, "signed")
  \/ /\ clock < MaxOrgRequests
     /\ \E id \in EventRefs, org \in OrgNames \cup {NULL}, orgId \in OrgRefs \cup {NULL},
           up \in CloudOutcomes :
          PutEvent(id, NULL, NULL, NONE, org, orgId, NONE, up, up, TRUE, "signed")

\* no request of this specification carries a file: the bucket plays no part
InitOrgs == \E fs \in BOOLEAN : InitWith(fs, FALSE)

SpecOrgs == InitOrgs /\ [][NextOrgs]_vars

\* what the environment may do to a bucket call, when there is a bucket
UploadOutcomes == IF supabase THEN BOOLEAN ELSE {TRUE}
SignChoices == IF supabase THEN SignOutcomes ELSE {"none"}

\* the form values of the amount field
AmountInputs == {NULL, <<"x">>, <<"-", "5">>, <<"0">>, <<"5">>}

\* Authorization headers: nothing reads them without firebase-admin
SubmitTokens == IF firestore THEN {NONE, Student1} ELSE {NONE}
Tokens == IF firestore THEN {NONE, BadToken} \cup Users ELSE {NONE}

PaymentRefs == {payments[i].id : i \in 1..Len(payments)} \cup {UnknownId}

\* submissions: field validation, org/event resolution, proof storage
NextSubmit ==
  \/ /\ clock < MaxSubmitRequests
     /\ \E file \in {NONE, PngFile}, up \in CloudOutcomes, upOk \in UploadOutcomes, sign \in SignChoices :
          PostEvent(<<"fee">>, <<"e">>, NULL, NONE, file, up, up, upOk, sign)
  \/ /\ clock < MaxSubmitRequests
     /\ \E token \in SubmitTokens, name \in EventNames \cup {NULL}, amount \in AmountInputs,
           up \in CloudOutcomes :
          SubmitPayment(token, name, amount, NULL, NULL, NULL, NULL, NULL, NULL, NULL, FALSE,
                        up, TRUE, "none")
  \/ /\ clock < MaxSubmitRequests
     /\ \E token \in SubmitTokens, org \in {NULL, <<"e">>}, orgId \in OrgRefs \cup {NULL},
           event \in {NULL, <<"fee">>}, eventId \in EventRefs \cup {NULL},
           up \in CloudOutcomes :
          SubmitPayment(token, <<"fee">>, <<"5">>, org, event, orgId, eventId, NULL, NULL, NULL, FALSE,
                        up, TRUE, "none")
  \/ /\ clock < MaxSubmitRequests
     /\ \E token \in SubmitTokens, up \in CloudOutcomes, upOk \in UploadOutcomes,
           sign \in SignChoices :
          SubmitPayment(token, <<"fee">>, <<"5">>, NULL, NULL, NULL, NULL, NULL, NULL, NULL, TRUE,
                        up, upOk, sign)

SpecSubmit == Init /\ [][NextSubmit]_vars

\* review: submissions that pass validation, approve and unapprove, and
\* requests that have no business with a status
NextReview ==
  \/ /\ clock < MaxReviewRequests
     /\ \E token \in SubmitTokens, up \in CloudOutcomes :
          SubmitPayment(token, <<"fee">>, <<"5">>, NULL, NULL, NULL, NULL, NULL, NULL, NULL, FALSE,
                        up, TRUE, "none")
  \/ /\ clock < MaxReviewRequests
     /\ \E id \in PaymentRefs, up \in CloudOutcomes : ApprovePayment(id, up)
  \/ /\ clock < MaxReviewRequests
     /\ \E id \in PaymentRefs, up \in CloudOutcomes : UnapprovePayment(id, up)
  \/ /\ clock < MaxReviewRequests
     /\ \E token \in SubmitTokens, id \in PaymentRefs, up \in CloudOutcomes :
          GetProofUrl(token, id, up, TRUE)
  \/ /\ clock < MaxReviewRequests
     /\ \E up \in CloudOutcomes : PostOrg(<<"e">>, NULL, up)

SpecReview == InitOrgs /\ [][NextReview]_vars

\* proofs: submissions with and without a proof, then requests for its URL
NextProof ==
  \/ /\ clock < MaxProofRequests
     /\ \E token \in SubmitTokens, email \in {NULL, Student2.email}, file \in BOOLEAN,
           up \in CloudOutcomes, upOk \in UploadOutcomes, sign \in SignChoices :
          SubmitPayment(token, <<"fee">>, <<"5">>, NULL, NULL, NULL, NULL, email, NULL, NULL, file,
                        up, upOk, sign)
  \/ /\ clock < MaxProofRequests
     /\ \E token \in Tokens, id \in PaymentRefs, up \in CloudOutcomes,
           signOk \in UploadOutcomes :
          GetProofUrl(token, id, up, signOk)

SpecProof == Init /\ [][NextProof]_vars

\* the read routes after creations whose mirror may fail
MaxReadRequests == 3

ReadOrgNames == {<<"e">>, <<" ", "E">>}

NextReads ==
  \/ /\ clock < MaxReadRequests
     /\ \E name \in ReadOrgNames, fsOk \in CloudOutcomes : PostOrg(name, NULL, fsOk)
  \/ /\ clock < MaxReadRequests
     /\ \E org \in ReadOrgNames \cup {NULL}, orgId \in OrgRefs \cup {NULL}, up \in CloudOutcomes :
          PostEvent(<<"fee">>, org, orgId, NONE, NONE, up, up, TRUE, "signed")
  \/ /\ clock < MaxReadRequests
     /\ \E fsUp \in CloudOutcomes : GetOrgs(fsUp)
  \/ /\ clock < MaxReadRequests
     /\ \E id \in OrgRefs, fsUp \in CloudOutcomes : GetOrg(id, fsUp)
  \/ /\ clock < MaxReadRequests
     /\ \E org \in ReadOrgNames \cup {NULL}, orgId \in OrgRefs \cup {NULL}, fsUp \in CloudOutcomes :
          GetEvents(org, orgId, fsUp)
  \/ /\ clock < MaxReadRequests
     /\ \E id \in EventRefs, fsUp \in CloudOutcomes : GetEvent(id, fsUp, "signed")
  \/ /\ clock < MaxReadRequests
     /\ \E token \in SubmitTokens, up \in CloudOutcomes :
          SubmitPayment(token, <<"fee">>, <<"5">>, NULL, NULL, NULL, NULL, NULL, NULL, NULL, FALSE,
                        up, TRUE, "none")
  \/ /\ clock < MaxReadRequests
     /\ \E fsUp \in CloudOutcomes : GetPayments(NULL, NULL, NULL, fsUp, "none")
  \/ /\ clock < MaxReadRequests
     /\ \E token \in SubmitTokens, org \in {NULL, <<"e">>}, fsOk \in CloudOutcomes :
          PostOfficerProfile(token, org, NULL, <<"treasurer">>, fsOk)
  \/ /\ clock < MaxReadRequests
     /\ \E org \in {NULL, <<"e">>}, orgId \in {NULL, UnknownId}, fsUp \in CloudOutcomes :
          GetOfficerProfiles(org, orgId, fsUp)
  \/ /\ clock < MaxReadRequests
     /\ \E id \in {<<"e">>, UnknownId}, fsUp \in CloudOutcomes : GetOfficerProfile(id, fsUp)

SpecReads == InitOrgs /\ [][NextReads]_vars

\* every write route, each with a mirror write that may fail
MaxWriteRequests == 3

NextWrites ==
  \/ /\ clock < MaxWriteRequests
     /\ \E fsOk \in CloudOutcomes : PostOrg(<<"e">>, NULL, fsOk)
  \/ /\ clock < MaxWriteRequests
     /\ \E id \in OrgRefs, fsOk \in CloudOutcomes : PutOrg(id, <<"e^">>, NULL, fsOk)
  \/ /\ clock < MaxWriteRequests
     /\ \E id \in OrgRefs, fsOk \in CloudOutcomes : DeleteOrg(id, fsOk)
  \/ /\ clock < MaxWriteRequests
     /\ \E up \in CloudOutcomes :
          PostEvent(<<"fee">>, <<"e">>, NULL, NONE, NONE, up, up, TRUE, "signed")
  \/ /\ clock < MaxWriteRequests
     /\ \E id \in EventRefs, up \in CloudOutcomes :
          PutEvent(id, NULL, <<"Closed">>, NONE, NULL, NULL, NONE, up, up, TRUE, "signed")
  \/ /\ clock < MaxWriteRequests
     /\ \E id \in EventRefs, fsOk \in CloudOutcomes : DeleteEvent(id, fsOk)
  \/ /\ clock < MaxWriteRequests
     /\ \E token \in SubmitTokens, up \in CloudOutcomes :
          SubmitPayment(token, <<"fee">>, <<"5">>, NULL, NULL, NULL, NULL, NULL, NULL, NULL, FALSE,
                        up, TRUE, "none")
  \/ /\ clock < MaxWriteRequests
     /\ \E id \in PaymentRefs, fsOk \in CloudOutcomes : ApprovePayment(id, fsOk)
  \/ /\ clock < MaxWriteRequests
     /\ \E id \in PaymentRefs, fsOk \in CloudOutcomes : UnapprovePayment(id, fsOk)

SpecWrites == InitOrgs /\ [][NextWrites]_vars

\* payments of events, listed by event with year and block filters
MaxListRequests == 3

StudentYears == {NULL, <<"1">>, <<"2">>}
StudentBlocks == {NULL, <<"E">>}
YearQueries == {NULL, <<"1">>, <<"1", ",", " ", "2">>}
BlockQueries == {NULL, <<"e">>}

NextList ==
  \/ /\ clock < MaxListRequests
     /\ \E up \in CloudOutcomes :
          PostEvent(<<"fee">>, <<"e">>, NULL, NONE, NONE, up, up, TRUE, "signed")
  \/ /\ clock < MaxListRequests
     /\ \E token \in SubmitTokens, event \in EventRefs \cup {NULL}, eventId \in EventRefs \cup {NULL},
           up \in CloudOutcomes :
          SubmitPayment(token, <<"fee">>, <<"5">>, NULL, event, NULL, eventId, NULL, NULL, NULL,
                        FALSE, up, TRUE, "none")
  \/ /\ clock < MaxListRequests
     /\ \E token \in SubmitTokens, year \in StudentYears, block \in StudentBlocks,
           up \in CloudOutcomes :
          SubmitPayment(token, <<"fee">>, <<"5">>, NULL, NULL, NULL, UnknownId, NULL, year, block,
                        FALSE, up, TRUE, "none")
  \/ /\ clock < MaxListRequests
     /\ \E id \in PaymentRefs, fsOk \in CloudOutcomes : ApprovePayment(id, fsOk)
  \/ /\ clock < MaxListRequests
     /\ \E eventId \in EventRefs, fsUp \in CloudOutcomes :
          GetPayments(eventId, NULL, NULL, fsUp, "none")
  \/ /\ clock < MaxListRequests
     /\ \E years \in YearQueries, blocks \in BlockQueries, fsUp \in CloudOutcomes :
          GetPayments(UnknownId, years, blocks, fsUp, "none")

SpecList == InitOrgs /\ [][NextList]_vars

\* the officer dashboard over the payments of an event
MaxDashRequests == 2

SubmitterEmails == {<<"u1@mail">>, <<"u2@mail">>}

\* the events the dashboard lists
ListedEvents == {events[i] : i \in 1..Len(events)}

\* the block chips of the drawer: availableFilters.blocks of the open event
BlockChips ==
  IF IsNone(dashboard.currentEventView) THEN {}
  ELSE PaymentsResponse(dashboard.currentEventView.id, NULL, NULL, TRUE, "none").availableFilters.blocks

NextDashboard ==
  \/ /\ clock < MaxDashRequests
     /\ \E up \in CloudOutcomes :
          PostEvent(<<"fee">>, <<"e">>, NULL, NONE, NONE, up, up, TRUE, "signed")
  \/ /\ clock < MaxDashRequests
     /\ \E ev \in ListedEvents, email \in SubmitterEmails, year \in FIXED_YEARS,
           block \in StudentBlocks :
          SubmitPayment(Student1, <<"fee">>, <<"5">>, <<"e">>, NULL, NULL, ev.id, email,
                        year, block, FALSE, TRUE, TRUE, "none")
  \/ /\ clock < MaxDashRequests
     /\ \E id \in PaymentRefs : ApprovePayment(id, TRUE)
  \/ \E ev \in ListedEvents, fetchOk \in BOOLEAN, fsUp \in CloudOutcomes :
       OpenEventPaymentsView(ev, fetchOk, fsUp)
  \/ \E y \in FIXED_YEARS : ClickYearChip(y)
  \/ \E b \in BlockChips : ClickBlockChip(b)
  \/ ClickClear
  \/ \E fetchOk \in BOOLEAN, fsUp \in CloudOutcomes : ClickDone(fetchOk, fsUp)
  \/ \E fetchOk \in BOOLEAN, fsUp \in CloudOutcomes : ReRenderCurrentEvent(fetchOk, fsUp)

SpecDashboard == InitOrgs /\ [][NextDashboard]_vars

\* ------------------------------------------------------------------ C1
\* C1: after any sequence of completed organization and event requests from
\* an empty store, no two records of the organizations registry carry the
\* same canonicalName.
C1_OnePerCanonicalName ==
  \A i, j \in 1..Len(organizations) :
    i # j => organizations[i].canonicalName # organizations[j].canonicalName

\* ------------------------------------------------------------------ C2
\* C2: when a request upserts an organization by name n right after a
\* request that upserted the same n, it gets the same Organization id and
\* the registry gains no record.
C2_SecondUpsertSameId ==
  [][\A i \in 1..Len(resp.upserts), j \in 1..Len(resp'.upserts) :
       resp.upserts[i].name = resp'.upserts[j].name
         => /\ resp'.upserts[j].id = resp.upserts[i].id
            /\ Len(organizations') = Len(organizations)]_vars

\* ------------------------------------------------------------------ C3
\* the two strings have the same length and differ, position by position,
\* at most by the listed pairs of characters
DifferBy(s1, s2, pairs) ==
  /\ Len(s1) = Len(s2)
  /\ \A i \in 1..Len(s1) : s1[i] = s2[i] \/ {s1[i], s2[i]} \in pairs

DifferOnlyInCase(s1, s2) == DifferBy(s1, s2, {{"e", "E"}, {"e^", "E^"}})
DifferOnlyInAccents(s1, s2) == DifferBy(s1, s2, {{"e", "e^"}, {"E", "E^"}})

Spaces(n) == [i \in 1..n |-> " "]

\* the same text between different amounts of leading / trailing whitespace
DifferOnlyInOuterSpace(s1, s2) ==
  \E l1 \in 0..Len(s1), l2 \in 0..Len(s2) :
    \E r1 \in 0..(Len(s1) - l1), r2 \in 0..(Len(s2) - l2) :
      LET core == SubSeq(s1, l1 + 1, Len(s1) - r1)
      IN /\ s1 = Spaces(l1) \o core \o Spaces(r1)
         /\ s2 = Spaces(l2) \o core \o Spaces(r2)

DifferOnlyInCaseSpaceAccents(s1, s2) ==
  /\ s1 \in Strings
  /\ s2 \in Strings
  /\ \/ DifferOnlyInCase(s1, s2)
     \/ DifferOnlyInAccents(s1, s2)
     \/ DifferOnlyInOuterSpace(s1, s2)

\* C3: each canonicalizer (server canonicalOrgName, migration
\* canonicalizeName) gives two names that differ only in case, outer
\* whitespace or accent marks the same key, and gives the empty string for
\* an empty or null name.
C3_CanonicalKeyAgrees ==
  resp.op \in {"canonicalOrgName", "canonicalizeName"} =>
    /\ DifferOnlyInCaseSpaceAccents(input[1], input[2]) => resp.body[1] = resp.body[2]
    /\ \A k \in {1, 2} : input[k] \in {NULL, EMPTY} => resp.body[k] = EMPTY

\* the same statement for the migration tool's canonicalizeName alone
C3_MigrationKeyAgrees ==
  resp.op = "canonicalizeName" =>
    /\ DifferOnlyInCaseSpaceAccents(input[1], input[2]) => resp.body[1] = resp.body[2]
    /\ \A k \in {1, 2} : input[k] \in {NULL, EMPTY} => resp.body[k] = EMPTY

\* ------------------------------------------------------------------ C4
\* a request that ran to its answer in this step
Answered(op) == clock' # clock /\ resp'.op = op
Completed(op) == Answered(op) /\ resp'.status = 200

LocalStatus(pays, id) ==
  LET idx == PaymentIndex(pays, id) IN IF idx = 0 THEN <<"absent">> ELSE pays[idx].status

CloudStatus(docs, id) == IF id \in DOMAIN docs THEN docs[id].status ELSE <<"absent">>

StoredPaymentIds(pays, docs) == {pays[i].id : i \in 1..Len(pays)} \cup DOMAIN docs

\* what one step may do to the status of the payment id, in the local file
\* (before, after) and in the cloud document
StatusStepOk(id, before, after) ==
  /\ after \in {<<"pending">>, <<"approved">>, <<"absent">>}
  /\ before # <<"absent">> => after # <<"absent">>
  /\ (before # <<"approved">> /\ after = <<"approved">>)
       => Completed("POST /api/payments/:id/approve") /\ resp'.req.id = id
  /\ (before # <<"pending">> /\ after = <<"pending">>)
       => \/ Completed("POST /api/payments/:id/unapprove") /\ resp'.req.id = id
          \/ Completed("POST /api/payments") /\ resp'.body.id = id /\ before = <<"absent">>

C5_UnapproveClearsApproval ==
  [][(/\ resp.op = "POST /api/payments/:id/approve"
      /\ resp.status = 200
      /\ Completed("POST /api/payments/:id/unapprove")
      /\ resp'.req.id = resp.req.id)
       => LET id == resp'.req.id
              stored == payments'[PaymentIndex(payments', id)]
          IN /\ stored.status = <<"pending">>
             /\ "approvedAt" \notin DOMAIN stored
             /\ "approvedAt" \notin DOMAIN resp'.body
             /\ (id \in DOMAIN fsPayments' /\ fsPayments'[id].status = <<"pending">>)
                  => "approvedAt" \notin DOMAIN fsPayments'[id]]_vars

\* ------------------------------------------------------------------ C6
\* a form value that reads as a number above zero
IsPositiveNumber(s) ==
  /\ s # EMPTY
  /\ \A i \in 1..Len(s) : s[i] \in Digits
  /\ \E i \in 1..Len(s) : s[i] # "0"

\* C6: a POST /api/payments whose name is missing, or whose amount is
\* missing, not a number or not above zero, is answered with a 4xx status
\* and leaves the payments of the local file and of the cloud store as they
\* were.
C6_InvalidSubmitRejected ==
  [][(/\ Answered("POST /api/payments")
      /\ ~Truthy(resp'.req.name) \/ ~IsPositiveNumber(resp'.req.amount))
       => /\ resp'.status \in 400..499
          /\ payments' = payments
          /\ fsPayments' = fsPayments]_vars

\* ------------------------------------------------------------------ C7
\* the registry entry a name or an id refers to
OrgNamed(n) == {organizations[i] : i \in {k \in 1..Len(organizations) : organizations[k].name = n}}
OrgWithId(id) == {organizations[i] : i \in {k \in 1..Len(organizations) : organizations[k].id = id}}
EventNamed(n) == {events[i] : i \in {k \in 1..Len(events) : events[k].name = n}}
EventWithId(id) == {events[i] : i \in {k \in 1..Len(events) : events[k].id = id}}

\* C7: the payment a successful submit persisted has status 'pending', the
\* orgId and eventId of the request, the org name / event name of the
\* referenced record when the request gave only the id, the id of the named
\* record when the request gave only the name, and in each of the pairs
\* orgId/org and eventId/event at least one half set.
C7_SubmitResolvesPairs ==
  (resp.op = "POST /api/payments" /\ resp.status = 200)
    => LET req == resp.req
           p == payments[PaymentIndex(payments, resp.body.id)]
       IN /\ p.status = <<"pending">>
          /\ Truthy(req.orgId) => p.orgId = req.orgId
          /\ Truthy(req.eventId) => p.eventId = req.eventId
          /\ (Truthy(req.orgId) /\ ~Truthy(req.org))
               => \A o \in OrgWithId(req.orgId) : p.org = o.name
          /\ (Truthy(req.org) /\ ~Truthy(req.orgId))
               => \A o \in OrgNamed(req.org) : p.orgId = o.id
          /\ (Truthy(req.eventId) /\ ~Truthy(req.event))
               => \A e \in EventWithId(req.eventId) : p.event = e.name
          /\ (Truthy(req.event) /\ ~Truthy(req.eventId))
               => \A e \in EventNamed(req.event) : p.eventId = e.id
          /\ Truthy(p.org) \/ Truthy(p.orgId)
          /\ Truthy(p.event) \/ Truthy(p.eventId)

\* ------------------------------------------------------------------ C8
\* every persisted copy of a payment
PersistedPayments ==
  {payments[i] : i \in 1..Len(payments)} \cup {fsPayments[id] : id \in DOMAIN fsPayments}

\* every stored copy of the payment id
CopiesOf(id) == {p \in PersistedPayments : p.id = id}

\* the requester is the submitter (by uid or by email) or an officer
MayReadProof(token, id) ==
  /\ token \in Users
  /\ \/ token.role = <<"officer">>
     \/ \E p \in CopiesOf(id) :
          p.submittedByUid = token.uid \/ p.submittedByEmail = token.email

\* the token gets past verification
Verified(token) == firestore => token \in Users

HasProof(id) == \E p \in CopiesOf(id) : Truthy(p.proofObjectPath)

ProofUrlErrors ==
  {<<"Missing or invalid token">>, <<"not found">>, <<"no proof object path">>,
   <<"forbidden">>}

\* C8 as stated: a URL goes only to the submitter or an officer, and every
\* other requester whose token verifies, asking for a stored payment, gets
\* 403 with neither a URL nor the object path in the body.
C8_OthersForbidden ==
  resp.op = "GET /api/payments/:id/proof-url"
    => LET token == resp.req.token
           id == resp.req.id
       IN /\ "url" \in DOMAIN resp.body => MayReadProof(token, id)
          /\ (~MayReadProof(token, id) /\ Verified(token) /\ CopiesOf(id) # {})
               => /\ resp.status = 403
                  /\ DOMAIN resp.body = {"error"}
                  /\ resp.body.error \in ProofUrlErrors

\* C8, amended: a URL goes only to the submitter or an officer; every other
\* requester gets an error body with neither a URL nor the object path:
\* 401 when the token does not verify, else 404 when the payment is unknown
\* or has no proof object path, else 403.
C8_ProofUrlGuarded ==
  resp.op = "GET /api/payments/:id/proof-url"
    => LET token == resp.req.token
           id == resp.req.id
       IN /\ ("url" \in DOMAIN resp.body \/ resp.status = 200) => MayReadProof(token, id)
          /\ ~MayReadProof(token, id)
               => /\ DOMAIN resp.body = {"error"}
                  /\ resp.body.error \in ProofUrlErrors
                  /\ resp.status = IF ~Verified(token) THEN 401
                                   ELSE IF ~HasProof(id) THEN 404
                                   ELSE 403

\* a student asked for the proof of another student's payment and got 403
C8_Witness ==
  /\ resp.op = "GET /api/payments/:id/proof-url"
  /\ resp.status = 403
  /\ resp.req.token = Student2
  /\ \E p \in CopiesOf(resp.req.id) : p.submittedByUid = Student1.uid /\ HasProof(p.id)

\* ------------------------------------------------------------------ C9
\* C9: a persisted payment record (local file or cloud document) whose
\* proof sits in the bucket holds the object path and no URL.
C9_NoUrlPersisted ==
  \A p \in PersistedPayments :
    (Truthy(p.proofObjectPath) /\ p.proofObjectPath \in bucket) => ~Truthy(p.proofFile)

\* ------------------------------------------------------------------ C10
\* C10: a submit that received a proof, or an event create/update that
\* received a receiver QR, with no bucket configured or with the upload
\* failing, leaves the blob under uploads/ and stores its filename as the
\* object path, flagged local; and a stored payment with an object path and
\* a false local flag has its blob in the bucket.
C10_LocalFallback ==
  /\ (/\ resp.op = "POST /api/payments"
      /\ resp.status = 200
      /\ resp.req.file
      /\ ~supabase \/ ~resp.req.uploadOk)
       => /\ resp.body.proofObjectPath \in uploads
          /\ resp.body.proofObjectIsLocal
  /\ (/\ resp.op \in {"POST /api/events", "PUT /api/events/:id"}
      /\ resp.status = 200
      /\ resp.req.file
      /\ ~supabase \/ ~resp.req.uploadOk)
       => /\ Get(resp.body.receiver, "qrObjectPath") \in uploads
          /\ "qrObjectIsLocal" \in DOMAIN resp.body.receiver
          /\ resp.body.receiver.qrObjectIsLocal
  /\ \A p \in PersistedPayments :
       (Truthy(p.proofObjectPath) /\ ~p.proofObjectIsLocal) => p.proofObjectPath \in bucket

\* ------------------------------------------------------------------ C11
\* C11: when the submitter of a payment that was submitted with a proof asks
\* for its proof URL, the answer is 200 with the /uploads URL of the stored
\* filename if the blob sits under uploads/, and if the blob sits in the
\* bucket the answer is 200 with a signed URL over the stored object path
\* unless the signing call itself failed (500).
C11_ProofRoundTrip ==
  (/\ resp.op = "GET /api/payments/:id/proof-url"
   /\ resp.req.token \in Users)
    => \A p \in CopiesOf(resp.req.id) :
         (p.submittedByUid = resp.req.token.uid /\ Truthy(p.proofObjectPath))
           => /\ p.proofObjectPath \in uploads
                   => /\ resp.status = 200
                      /\ resp.body.url = LocalUrl(p.proofObjectPath)
              /\ p.proofObjectPath \in bucket
                   => /\ resp.status \in {200, 500}
                      /\ resp.status = 200 => resp.body.url = SignedUrl(p.proofObjectPath)
              /\ p.proofObjectPath \in uploads \cup bucket

\* a read request that the cloud store answered
CloudAnswered(op) ==
  /\ firestore
  /\ resp.op = op
  /\ resp.req.cloudUp

\* C12: with the cloud store configured and reachable, a read returns the cloud
\* store's answer: a by-id lookup of an id the cloud store does not hold answers
\* "not found", and a listing holds cloud documents only, even when the local
\* file holds more.
C12_CloudAuthoritative ==
  /\ (CloudAnswered("GET /api/orgs/:id") /\ resp.req.id \notin DOMAIN fsOrganizations)
       => resp.status = 404
  /\ (CloudAnswered("GET /api/events/:id") /\ resp.req.id \notin DOMAIN fsEvents)
       => resp.status = 404
  /\ CloudAnswered("GET /api/orgs")
       => \A i \in 1..Len(resp.body) : resp.body[i].id \in DOMAIN fsOrganizations
  /\ CloudAnswered("GET /api/events")
       => \A i \in 1..Len(resp.body) : resp.body[i].id \in DOMAIN fsEvents

\* a read request whose cloud call failed
CloudFailed(op) ==
  /\ firestore
  /\ resp.op = op
  /\ ~resp.req.cloudUp

\* C13: with the cloud store configured, a listing whose cloud read fails
\* answers 200 with the records of the local file: every organization, event,
\* payment and officer profile of the local file is in the answer of the
\* unfiltered listing.
C13_FailedReadFallsBack ==
  /\ CloudFailed("GET /api/orgs")
       => /\ resp.status = 200
          /\ \A i \in 1..Len(organizations) :
               \E j \in 1..Len(resp.body) :
                 resp.body[j].canonicalName = organizations[i].canonicalName
  /\ (CloudFailed("GET /api/events") /\ resp.req.org = NULL /\ resp.req.orgId = NULL)
       => /\ resp.status = 200
          /\ resp.body = events
  /\ (CloudFailed("GET /api/payments") /\ resp.req.eventId = NULL)
       => /\ resp.status = 200
          /\ resp.body = payments
  /\ (CloudFailed("GET /api/officer-profiles") /\ resp.req.org = NULL /\ resp.req.orgId = NULL)
       => /\ resp.status = 200
          /\ \A k \in DOMAIN officerProfiles :
               \E j \in 1..Len(resp.body) : resp.body[j] = officerProfiles[k]

\* the last request wrote the local file and its cloud mirror write failed
MirrorFailed ==
  /\ firestore
  /\ "req" \in DOMAIN resp
  /\ "cloudOk" \in DOMAIN resp.req
  /\ ~resp.req.cloudOk

\* the local file holds what the last write request answered
LocalHoldsWrite ==
  CASE resp.op \in {"POST /api/orgs", "PUT /api/orgs/:id"}
         -> \E i \in 1..Len(organizations) : organizations[i] = resp.body
    [] resp.op = "DELETE /api/orgs/:id"
         -> \A i \in 1..Len(organizations) : organizations[i].id # resp.body.id
    [] resp.op \in {"POST /api/events", "PUT /api/events/:id"}
         -> \E i \in 1..Len(events) : events[i] = resp.body
    [] resp.op = "DELETE /api/events/:id"
         -> \A i \in 1..Len(events) : events[i].id # resp.body.id
    [] resp.op \in {"POST /api/payments", "POST /api/payments/:id/approve",
                    "POST /api/payments/:id/unapprove"}
         -> \E i \in 1..Len(payments) : payments[i] = resp.body
    [] OTHER -> FALSE

\* C14: when a write route has written the local file and its cloud mirror
\* write fails, the caller is answered 200 and the local file keeps the write.
C14_MirrorFailureNotFatal ==
  MirrorFailed => /\ resp.status = 200
                  /\ LocalHoldsWrite

\* a payment submitted while the mirror write failed: kept locally, absent
\* from the cloud store, answered 200
C14_Witness ==
  /\ MirrorFailed
  /\ resp.op = "POST /api/payments"
  /\ resp.status = 200
  /\ resp.body.id \notin DOMAIN fsPayments
  /\ \E i \in 1..Len(payments) : payments[i].id = resp.body.id

\* the store that serves payment reads holds a payment with this id
ServedPaymentExists(id) ==
  IF firestore THEN id \in DOMAIN fsPayments ELSE PaymentIndex(payments, id) # 0

\* the step answers an approve or unapprove request
AnsweredReview ==
  \/ Answered("POST /api/payments/:id/approve")
  \/ Answered("POST /api/payments/:id/unapprove")

\* C15: approve and unapprove answer 404 exactly when the store that serves
\* payment reads (the cloud store when configured, else the local file) holds
\* no payment with the id, and a 404 leaves the local file and the cloud
\* store unchanged.
C15_NotFoundExact ==
  [][AnsweredReview
       => /\ resp'.status = 404 <=> ~ServedPaymentExists(resp'.req.id)
          /\ resp'.status = 404 => UNCHANGED <<localFile, cloudDocs>>]_vars

\* the payments of the store that answered the last listing
ListedSource ==
  IF firestore /\ resp.req.cloudUp THEN DocsList(fsPayments) ELSE payments

\* the ids of a payment array
IdsOf(pays) == {pays[i].id : i \in 1..Len(pays)}

\* the ids of the stored payments of an event
IdsOfEvent(pays, eventId) == {pays[i].id : i \in {j \in 1..Len(pays) : pays[j].eventId = eventId}}

\* C16: GET /api/payments?eventId=E returns exactly the stored payments whose
\* eventId is E, and totals.totalCount is the length of the returned array.
C16_ListByEventExact ==
  (/\ resp.op = "GET /api/payments"
   /\ resp.req.eventId # NULL
   /\ resp.req.year = NULL
   /\ resp.req.block = NULL)
    => /\ IdsOf(resp.body.payments) = IdsOfEvent(ListedSource, resp.req.eventId)
       /\ resp.body.totals.totalCount = Len(resp.body.payments)

\* the stored payments of the event named by the last listing request
EventPayments == PaymentsOfEvent(ListedSource, resp.req.eventId, FALSE)

\* the ids of the event's payments whose normalized year and block are in the
\* requested sets
IdsMatching(pays, years, blocks) ==
  {pays[i].id : i \in {j \in 1..Len(pays) : MatchesFilters(pays[j], years, blocks)}}

\* C17: GET /api/payments with an eventId and a year or block filter returns
\* exactly the event's payments whose normalized studentYear/studentBlock is
\* in the requested set, and its totals are the figures of the event's
\* payments without the year/block filter.
C17_FilteredListPinnedTotals ==
  (/\ resp.op = "GET /api/payments"
   /\ resp.req.eventId # NULL
   /\ resp.req.year # NULL \/ resp.req.block # NULL)
    => /\ IdsOf(resp.body.payments)
            = IdsMatching(EventPayments, NormalizedSet(toArrayOrNull(resp.req.year)),
                          NormalizedSet(toArrayOrNull(resp.req.block)))
       /\ resp.body.totals = Totals(EventPayments)

\* year or block filters are active on the dashboard page d
FiltersActive(d) == d.activeFilters.years # <<>> \/ d.activeFilters.blocks # <<>>

\* C18: while year/block filters are active for the open event, a step of the
\* dashboard page (a chip click, Done, a re-render) leaves the three stat
\* cards as they were; only the table follows the filters.
C18_StatCardsPinned ==
  [][(dashboard' # dashboard /\ FiltersActive(dashboard'))
       => dashboard'.stats = dashboard.stats]_vars

\* the stat cards of the open event count its one submitter while the
\* filtered table shows no row
C18_Witness ==
  /\ FiltersActive(dashboard)
  /\ dashboard.rendered = "filtered"
  /\ dashboard.stats.paid = 1
  /\ dashboard.table = <<>>

\* the events of the store that answered the last listing
ListedEventSource ==
  IF firestore /\ resp.req.cloudUp THEN DocsList(fsEvents) ELSE events

\* C19: GET /api/events with an orgId returns exactly the events whose orgId
\* equals it, whether or not an org name comes with it and whichever store
\* serves the listing; the org name filters only when no orgId is given.
C19_OrgIdFilterExact ==
  resp.op = "GET /api/events"
    => /\ Truthy(resp.req.orgId)
            => resp.body = FilterEvents(ListedEventSource, resp.req.orgId, NULL)
       /\ (~Truthy(resp.req.orgId) /\ Truthy(resp.req.org))
            => resp.body = FilterEvents(ListedEventSource, NULL, resp.req.org)

\* an Organization with this id and name exists, in the local file or in the
\* cloud store
OrganizationExists(id, name) ==
  \/ \E i \in 1..Len(organizations) :
       organizations[i].id = id /\ organizations[i].name = name
  \/ /\ firestore
     /\ id \in DOMAIN fsOrganizations
     /\ fsOrganizations[id].name = name

\* C20: the event a successful POST /api/events stores has an orgId that
\* refers to an existing Organization and an org equal to its name.
C20_EventOrgResolves ==
  (resp.op = "POST /api/events" /\ resp.status = 200)
    => /\ \E i \in 1..Len(events) : events[i] = resp.body
       /\ OrganizationExists(resp.body.orgId, resp.body.org)

\* Organizations a PUT /api/events/:id naming `org` can resolve to: those of
\* the file, those of the cloud collection, and the one its upsert creates.
ResolvableOrgs(org) ==
  LET made == upsertOrganizationByName(organizations, fsOrganizations, uuid, org, org, TRUE)
  IN {organizations[i] : i \in 1..Len(organizations)}
       \cup {fsOrganizations[k] : k \in DOMAIN fsOrganizations}
       \cup (IF IsNone(made.org) THEN {} ELSE {made.org})

\* What an update of event `id` carrying only org / orgId may change.
PutEventFrame(id, org, orgId) ==
  LET idx == EventIndex(events, id)
      old == events[idx]
      new == events'[idx]
  IN idx # 0 =>
       /\ new.name = old.name
       /\ new.status = old.status
       /\ new.receiver = old.receiver
       /\ (org = NULL /\ orgId = NULL) => (new.orgId = old.orgId /\ new.org = old.org)
       /\ \/ new.orgId = old.orgId /\ new.org = old.org
          \/ \E o \in ResolvableOrgs(org) : new.orgId = o.id /\ new.org = o.name

\* C21: PUT /api/events/:id leaves name, status and receiver alone when the
\* request omits them, leaves orgId and org alone when it supplies neither org
\* nor orgId, and otherwise sets both from one resolved Organization.
C21_PutEventPartial ==
  [][\A id \in EventRefs, org \in OrgNames \cup {NULL}, orgId \in OrgRefs \cup {NULL},
        up \in CloudOutcomes :
       PutEvent(id, NULL, NULL, NONE, org, orgId, NONE, up, up, TRUE, "signed")
         => PutEventFrame(id, org, orgId)]_vars

\* ------------------------------------------------------------------ officer profile upserts
MaxProfileRequests == 3

Designations == {NULL, <<"treasurer">>, <<"auditor">>}
ProfileOrgIds == {NULL, <<"o1">>}

NextProfiles ==
  \/ /\ clock < MaxProfileRequests
     /\ \E token \in SubmitTokens, org \in {NULL, <<"e">>}, orgId \in ProfileOrgIds,
           designation \in Designations, fsOk \in CloudOutcomes :
          PostOfficerProfile(token, org, orgId, designation, fsOk)
  \/ /\ clock < MaxProfileRequests
     /\ \E id \in {<<"e">>, <<"o1">>}, fsUp \in CloudOutcomes : GetOfficerProfile(id, fsUp)

SpecProfiles == InitOrgs /\ [][NextProfiles]_vars

\* the upsert passed authentication and validation
ProfileUpserted ==
  /\ Answered("POST /api/officer-profiles")
  /\ resp'.status \notin {400, 401}

UpsertKey == IF Truthy(resp'.req.orgId) THEN resp'.req.orgId ELSE canonicalKeyForOrg(resp'.req.org)

\* field f of the stored profile after an upsert that gave it `given` (NULL: omitted)
FieldUpserted(before, after, key, f, given) ==
  /\ key \in DOMAIN after
  /\ f \in DOMAIN after[key]
  /\ given # NULL => after[key][f] = given
  /\ (given = NULL /\ key \in DOMAIN before /\ f \in DOMAIN before[key])
       => after[key][f] = before[key][f]

\* C22: an officer-profile upsert sets the fields it supplies and leaves every
\* stored field it omits (org and orgId included) at its stored value, in the
\* local file and in the cloud document.
C22_UpsertKeepsOmitted ==
  [][ProfileUpserted =>
       /\ FieldUpserted(officerProfiles, officerProfiles', UpsertKey, "org", resp'.req.org)
       /\ FieldUpserted(officerProfiles, officerProfiles', UpsertKey, "orgId", resp'.req.orgId)
       /\ (fsOfficerProfiles' # fsOfficerProfiles) =>
            /\ FieldUpserted(fsOfficerProfiles, fsOfficerProfiles', UpsertKey, "org", resp'.req.org)
            /\ FieldUpserted(fsOfficerProfiles, fsOfficerProfiles', UpsertKey, "orgId",
                             resp'.req.orgId)]_vars

\* C23: POST /api/officer-profiles with an org or an orgId answers 200 with
\* the stored profile, and an upsert answered with an error has written no
\* profile to the local file or to the cloud store.
C23_UpsertAnswersStored ==
  [][Answered("POST /api/officer-profiles") =>
       /\ resp'.status >= 400 => (officerProfiles' = officerProfiles
                                   /\ fsOfficerProfiles' = fsOfficerProfiles)
       /\ ProfileUpserted => (resp'.status = 200 /\ resp'.body = officerProfiles'[UpsertKey])]_vars

\* ------------------------------------------------------------------ listing a store with duplicates
MaxStoredOrgs == 3
MaxDedupeRequests == 1

StoredOrgNames == {<<"e">>, <<" ", "E">>, <<"e^">>, <<" ">>}

\* the record number i of the store: written by the server (canonicalOrgName),
\* by the migration (canonicalizeName), or by hand without a canonicalName
StoredOrg(i, name, style) ==
  LET base == [id |-> Uuid(i), name |-> name, displayName |-> name]
  IN CASE style = "server" -> Assign(base, [canonicalName |-> canonicalOrgName(name)])
       [] style = "migrated" -> Assign(base, [canonicalName |-> canonicalizeName(name)])
       \* a record whose contactEmail an officer has filled in
       [] style = "contact" -> Assign(base, [canonicalName |-> canonicalOrgName(name),
                                             contactEmail |-> <<"e@x">>])
       [] OTHER -> base

RECURSIVE StoredOrgLists(_)
StoredOrgLists(n) ==
  IF n = 0 THEN {<<>>}
  ELSE LET shorter == StoredOrgLists(n - 1)
       IN shorter \cup {Append(l, StoredOrg(n, name, style)) :
                          l \in {t \in shorter : Len(t) = n - 1},
                          name \in StoredOrgNames, style \in {"server", "migrated", "bare"}}

InitDedupe ==
  /\ firestore \in BOOLEAN
  /\ supabase = FALSE
  /\ organizations \in StoredOrgLists(MaxStoredOrgs)
  /\ events = <<>>
  /\ payments = <<>>
  /\ fsOrganizations = IF firestore
                       THEN [k \in {organizations[i].id : i \in 1..Len(organizations)} |->
                               organizations[CHOOSE i \in 1..Len(organizations) :
                                               organizations[i].id = k]]
                       ELSE NoDocs
  /\ fsEvents = NoDocs
  /\ fsPayments = NoDocs
  /\ officerProfiles = NoDocs
  /\ fsOfficerProfiles = NoDocs
  /\ dashboard = NoDashboard
  /\ backups = {}
  /\ studentPage = NoStudentPage
  /\ putInFlight = NONE
  /\ upsertCalls = NoCalls
  /\ bucket = {}
  /\ uploads = {}
  /\ uuid = Len(organizations)
  /\ clock = 0
  /\ input = <<NULL, NULL>>
  /\ resp = NoResp

NextDedupe ==
  /\ clock < MaxDedupeRequests
  /\ \E fsUp \in CloudOutcomes : GetOrgs(fsUp)

SpecDedupe == InitDedupe /\ [][NextDedupe]_vars

\* the organization records the answered GET /api/orgs read
ServedOrgs == IF firestore /\ resp.req.cloudUp THEN DocsList(fsOrganizations) ELSE organizations

\* the canonical name of a stored record
StoredCanonicalName(o) ==
  IF Truthy(Get(o, "canonicalName")) THEN o.canonicalName ELSE canonicalOrgName(o.name)

\* C24: the GET /api/orgs response holds no two entries with the same
\* canonical name and an entry for every non-empty canonical name of the
\* store it read, whatever duplicates that store holds.
C24_OrgsDeduped ==
  resp.op = "GET /api/orgs" =>
    /\ \A i, j \in 1..Len(resp.body) :
         i # j => resp.body[i].canonicalName # resp.body[j].canonicalName
    /\ \A k \in 1..Len(ServedOrgs) :
         StoredCanonicalName(ServedOrgs[k]) # EMPTY =>
           \E i \in 1..Len(resp.body) :
             resp.body[i].canonicalName = StoredCanonicalName(ServedOrgs[k])

\* a store with three records of one canonical name answered with one entry
C24_Witness ==
  /\ resp.op = "GET /api/orgs"
  /\ Len(ServedOrgs) = 3
  /\ \A k \in 1..3 : StoredCanonicalName(ServedOrgs[k]) = <<"e">>
  /\ Len(resp.body) = 1

\* ------------------------------------------------------------------ data.json on disk
\* In this specification `input` is the content of data.json: a JSON document
\* [json |-> value] or a text that is no JSON, [text |-> tokens].
MaxFileRequests == 4

DbKeys == {"payments", "events", "organizations", "officerProfiles", "users"}

DefaultOf(k) == IF k \in {"officerProfiles", "users"} THEN NoDocs ELSE <<>>

\* { payments: [], events: [], organizations: [], officerProfiles: {}, users: {} }
EmptyDB == [k \in DbKeys |-> DefaultOf(k)]

\* JSON.parse(fs.readFileSync(DB_FILE, 'utf8')): throws on a text that is no JSON
JsonParse(file) ==
  IF "json" \in DOMAIN file THEN [ok |-> TRUE, value |-> file.json] ELSE [ok |-> FALSE]

\* JSON.stringify(db, null, 2): a NaN amount is written as null
JsonStringify(db) == [json |-> [db EXCEPT !.payments = ToJsonAll(@)]]

\* if (!db.payments) db.payments = []; ... for the five keys
EnsureKeys(db) == [k \in DOMAIN db \cup DbKeys |-> IF k \in DOMAIN db THEN db[k] ELSE DefaultOf(k)]

\* what a call that raised hands to its caller's catch
Thrown == [thrown |-> TRUE]
IsThrown(v) == "thrown" \in DOMAIN v

\* readDB without its try/catch
readDB_NoCatch(file) ==
  LET parsed == JsonParse(file)
  IN IF ~parsed.ok \/ parsed.value = JsonNull THEN Thrown ELSE EnsureKeys(parsed.value)

\* readDB: a parse error, or a property read on the literal null, lands in the
\* catch, which returns the empty structure
readDB(file) ==
  LET parsed == JsonParse(file)
  IN IF ~parsed.ok \/ parsed.value = JsonNull THEN EmptyDB ELSE EnsureKeys(parsed.value)

writeDB(db) == JsonStringify(EnsureKeys(db))

\* a handler that only reads the file
ReadStore ==
  LET db == readDB(input)
      req == [parsed |-> JsonParse(input).ok]
  IN IF IsThrown(db) THEN Answer("readDB", 500, req, NONE)
     ELSE Answer("readDB", 200, req, db)

\* POST /api/orgs against the file on disk (no Firestore): upsertOrganizationByName
\* reads data.json, and writes it back when it created or changed a record
PostOrgFile(name) ==
  /\ Tick
  /\ LET db == readDB(input)
         req == [parsed |-> JsonParse(input).ok]
     IN IF IsThrown(db)
        THEN /\ resp' = [op |-> "POST /api/orgs", status |-> 500, req |-> req, body |-> NONE,
                         upserts |-> <<>>]
             /\ UNCHANGED <<config, upsertCalls, putInFlight, backups, studentPage, dashboard, profiles, localFile, cloudDocs, blobs, uuid, input>>
        ELSE LET r == upsertOrganizationByName(db.organizations, NoDocs, uuid, name, NULL, TRUE)
             IN /\ input' = IF r.orgs = db.organizations THEN input
                            ELSE writeDB([db EXCEPT !.organizations = r.orgs])
                /\ uuid' = r.uuid
                /\ resp' = [op |-> "POST /api/orgs", status |-> 200, req |-> req, body |-> r.org,
                            upserts |-> <<[name |-> name, id |-> r.org.id]>>]
                /\ UNCHANGED <<config, upsertCalls, putInFlight, backups, studentPage, dashboard, profiles, localFile, cloudDocs, blobs>>

\* texts that are no JSON: an empty file, a truncated document, stray text
MalformedFiles ==
  {[text |-> EMPTY], [text |-> <<"{">>], [text |-> <<"{", "\"payments\"", ":", "[">>],
   [text |-> <<"oops">>]}

JsonFiles ==
  {[json |-> JsonNull],
   [json |-> EmptyObject],
   [json |-> [payments |-> <<>>, events |-> <<>>]],
   [json |-> EmptyDB],
   [json |-> [EmptyDB EXCEPT !.organizations = <<StoredOrg(1, <<"e">>, "server")>>]]}

InitFile ==
  /\ firestore = FALSE
  /\ supabase = FALSE
  /\ organizations = <<>>
  /\ events = <<>>
  /\ payments = <<>>
  /\ fsOrganizations = NoDocs
  /\ fsEvents = NoDocs
  /\ fsPayments = NoDocs
  /\ officerProfiles = NoDocs
  /\ fsOfficerProfiles = NoDocs
  /\ dashboard = NoDashboard
  /\ backups = {}
  /\ studentPage = NoStudentPage
  /\ putInFlight = NONE
  /\ upsertCalls = NoCalls
  /\ bucket = {}
  /\ uploads = {}
  /\ uuid = 1
  /\ clock = 0
  /\ input \in MalformedFiles \cup JsonFiles
  /\ resp = NoResp

NextFile ==
  \/ /\ clock < MaxFileRequests
     /\ ReadStore
  \/ /\ clock < MaxFileRequests
     /\ \E name \in OrgNames : PostOrgFile(name)

SpecFile == InitFile /\ [][NextFile]_vars

\* C25: a request that finds data.json unparseable reads the empty structure
\* with the five collections and is answered normally; when it writes, the
\* file it leaves parses and holds the five collections and the written record.
C25_MalformedFileRecovers ==
  (resp.op \in {"readDB", "POST /api/orgs"} /\ ~resp.req.parsed) =>
    /\ resp.status = 200
    /\ resp.op = "readDB" => (resp.body = EmptyDB /\ DOMAIN resp.body = DbKeys)
    /\ resp.op = "POST /api/orgs" =>
         /\ JsonParse(input).ok
         /\ DOMAIN JsonParse(input).value = DbKeys
         /\ \E i \in 1..Len(JsonParse(input).value.organizations) :
              JsonParse(input).value.organizations[i] = resp.body

\* an organization was created over an unparseable file, which now parses
C25_Witness ==
  /\ resp.op = "POST /api/orgs"
  /\ ~resp.req.parsed
  /\ resp.status = 200
  /\ JsonParse(input).ok
  /\ Len(JsonParse(input).value.organizations) = 1

\* ------------------------------------------------------------------ migrate-to-firestore.js
\* a || b || c || ''
FirstTruthy(a, b, c) == IF Truthy(a) THEN a ELSE IF Truthy(b) THEN b ELSE StringOrEmpty(c)

CanonIndex(map, canon) == First({i \in 1..Len(map) : map[i].canon = canon})

\* canonMap after the organization record o: a new entry, or the merge into
\* the entry that already holds its canonical name
SeedFromOrg(map, o) ==
  LET name == FirstTruthy(Get(o, "name"), Get(o, "displayName"), Get(o, "id"))
      canon == canonicalizeName(IF Truthy(Get(o, "canonicalName")) THEN o.canonicalName ELSE name)
      idx == CanonIndex(map, canon)
  IN IF canon = EMPTY THEN map
     ELSE IF idx = 0
     THEN Append(map, [canon |-> canon,
                       id |-> OrNull(Get(o, "id")),
                       name |-> name,
                       displayName |-> FirstTruthy(Get(o, "displayName"), Get(o, "name"),
                                                   Get(o, "id"))])
     ELSE LET ex == map[idx]
              withId == IF ~Truthy(ex.id) /\ Truthy(Get(o, "id")) THEN [ex EXCEPT !.id = o.id]
                        ELSE ex
              withDisplay ==
                IF /\ ~Truthy(withId.displayName) \/ withId.displayName = withId.name
                   /\ Truthy(Get(o, "displayName"))
                   /\ Get(o, "displayName") # Get(o, "name")
                THEN [withId EXCEPT !.displayName = o.displayName] ELSE withId
              withName ==
                IF /\ ~Truthy(withDisplay.name) \/ withDisplay.name = withDisplay.displayName
                   /\ Truthy(Get(o, "name"))
                   /\ Get(o, "name") # Get(o, "displayName")
                THEN [withDisplay EXCEPT !.name = o.name] ELSE withDisplay
          IN [map EXCEPT ![idx] = withName]

RECURSIVE SeedFromOrgs(_, _)
SeedFromOrgs(map, orgs) ==
  IF orgs = <<>> THEN map ELSE SeedFromOrgs(SeedFromOrg(map, Head(orgs)), Tail(orgs))

\* canonMap after the event ev: organizations known only from event org names
SeedFromEvent(map, ev) ==
  LET name == StringOrEmpty(Get(ev, "org"))
      canon == canonicalizeName(name)
      idx == CanonIndex(map, canon)
  IN IF canon = EMPTY THEN map
     ELSE IF idx = 0
     THEN Append(map, [canon |-> canon, id |-> NULL, name |-> name, displayName |-> name])
     ELSE LET ex == map[idx]
              withName == IF (~Truthy(ex.name) \/ ex.name = ex.displayName) /\ Truthy(name)
                          THEN [ex EXCEPT !.name = name] ELSE ex
              withDisplay == IF ~Truthy(withName.displayName) /\ Truthy(name)
                             THEN [withName EXCEPT !.displayName = name] ELSE withName
          IN [map EXCEPT ![idx] = withDisplay]

RECURSIVE SeedFromEvents(_, _)
SeedFromEvents(map, evs) ==
  IF evs = <<>> THEN map ELSE SeedFromEvents(SeedFromEvent(map, Head(evs)), Tail(evs))

\* canonicalEntries of a run over the given organizations and events
canonicalEntries(orgs, evs) == SeedFromEvents(SeedFromOrgs(<<>>, orgs), evs)

\* the organization document the migration sets for an entry
OrgDocOf(entry, orgId) ==
  [id |-> orgId,
   name |-> entry.name,
   displayName |-> IF Truthy(entry.displayName) THEN entry.displayName ELSE entry.name,
   canonicalName |-> entry.canon]

\* The create-or-reuse loop over the entries from position i on.  ids: the
\* canonToOrgId values so far, in entry order; n: ids generated so far;
\* write: a real run whose Firestore calls succeed.
RECURSIVE AssignOrgIds(_, _, _, _, _, _)
AssignOrgIds(entries, i, ids, fsOrgs, n, write) ==
  IF i > Len(entries) THEN [ids |-> ids, fsOrgs |-> fsOrgs, uuid |-> n]
  ELSE LET entry == entries[i]
           fresh == ~Truthy(entry.id)
           orgId == IF fresh THEN Uuid(n + 1) ELSE entry.id
       IN AssignOrgIds(entries, i + 1, Append(ids, orgId),
                       IF write THEN DocMerge(fsOrgs, orgId, OrgDocOf(entry, orgId)) ELSE fsOrgs,
                       IF fresh THEN n + 1 ELSE n, write)

\* canonToOrgId.get(canon) || null
MappedOrgId(entries, ids, canon) ==
  LET idx == CanonIndex(entries, canon) IN IF idx = 0 THEN NULL ELSE ids[idx]

\* the event loop: set orgId from the canonical name of ev.org when it is
\* missing or different, and then take the entry's name as ev.org
MapEventOrg(ev, entries, ids) ==
  LET canon == canonicalizeName(StringOrEmpty(Get(ev, "org")))
      mappedOrgId == MappedOrgId(entries, ids, canon)
      orgEntry == entries[CanonIndex(entries, canon)]
  IN IF Truthy(mappedOrgId) /\ Get(ev, "orgId") # mappedOrgId
     THEN Assign(ev, [orgId |-> mappedOrgId,
                      org |-> IF Truthy(orgEntry.name) THEN orgEntry.name ELSE ev.org])
     ELSE ev

MapEvents(evs, entries, ids) == [i \in 1..Len(evs) |-> MapEventOrg(evs[i], entries, ids)]

\* eventLookupByOrgAndName: the events that set the key `${orgKey}:::${evName}`,
\* under their orgId or under the canonical name of their org
LookupHits(evs, orgKey, evName) ==
  {i \in 1..Len(evs) :
     /\ Truthy(Get(evs[i], "name"))
     /\ evs[i].name = evName
     /\ \/ Truthy(Get(evs[i], "orgId")) /\ evs[i].orgId = orgKey
        \/ /\ Truthy(Get(evs[i], "org"))
           /\ canonicalizeName(evs[i].org) # EMPTY
           /\ canonicalizeName(evs[i].org) = orgKey}

\* Map.get: the last event that set the key; NULL when none did
LookupEvent(evs, orgKey, evName) ==
  LET hits == LookupHits(evs, orgKey, evName)
  IN IF hits = {} THEN NULL ELSE evs[CHOOSE i \in hits : \A j \in hits : j <= i].id

\* the payment loop: fill a missing orgId from the canonical name of p.org and
\* a missing eventId from the event of that organization with the payment's
\* event name; an orgId or eventId the payment already has is kept
MapPayment(p, entries, ids, evs) ==
  LET payCanon == canonicalizeName(StringOrEmpty(Get(p, "org")))
      mapped == IF payCanon # EMPTY THEN MappedOrgId(entries, ids, payCanon) ELSE NULL
      withOrg == IF ~Truthy(Get(p, "orgId")) /\ Truthy(mapped)
                 THEN Assign(p, [orgId |-> mapped]) ELSE p
      evName == FirstTruthy(Get(p, "event"), Get(p, "name"), EMPTY)
      byOrgId == IF Truthy(Get(withOrg, "orgId")) THEN LookupEvent(evs, withOrg.orgId, evName)
                 ELSE NULL
      byCanon == IF payCanon # EMPTY THEN LookupEvent(evs, payCanon, evName) ELSE NULL
  IN IF Truthy(Get(withOrg, "eventId")) \/ evName = EMPTY THEN withOrg
     ELSE IF byOrgId # NULL THEN Assign(withOrg, [eventId |-> byOrgId])
     ELSE IF byCanon # NULL THEN Assign(withOrg, [eventId |-> byCanon])
     ELSE withOrg

MapPayments(pays, entries, ids, evs) ==
  [i \in 1..Len(pays) |-> MapPayment(pays[i], entries, ids, evs)]

\* the officer-profile loop over the local keys not yet handled (Object.keys
\* order is some fixed order); out: newOfficerProfilesMap
RECURSIVE MigrateProfiles(_, _, _, _, _, _, _)
MigrateProfiles(keys, entries, ids, out, fsProfiles, write, now) ==
  IF keys = {} THEN [map |-> out, fsProfiles |-> fsProfiles]
  ELSE LET localKey == CHOOSE k \in keys : TRUE
           profile == officerProfiles[localKey]
           profileOrgName == IF Truthy(Get(profile, "org")) THEN profile.org ELSE localKey
           canon == canonicalizeName(profileOrgName)
           mappedOrgId == IF Truthy(Get(profile, "orgId")) THEN profile.orgId
                          ELSE IF canon # EMPTY THEN MappedOrgId(entries, ids, canon)
                          ELSE NULL
           docId == IF Truthy(mappedOrgId) THEN mappedOrgId
                    ELSE IF canon # EMPTY THEN canon ELSE localKey
           mergedProfile == Assign(profile, [org |-> profileOrgName,
                                             orgId |-> mappedOrgId,
                                             updatedAt |-> IsoTime(now)])
       IN MigrateProfiles(keys \ {localKey}, entries, ids, DocSet(out, docId, mergedProfile),
                          IF write THEN DocMerge(fsProfiles, docId, mergedProfile)
                          ELSE fsProfiles,
                          write, now)

\* doc(d.id).set(d, { merge: true }) for every d of docs
RECURSIVE MergeAll(_, _)
MergeAll(coll, docs) ==
  IF docs = <<>> THEN coll ELSE MergeAll(DocMerge(coll, Head(docs).id, Head(docs)), Tail(docs))

\* orgsOut written without the ids the run assigned
OrgsOut_EntryIds(entries, ids) ==
  [i \in 1..Len(entries) |->
     [id |-> entries[i].id,
      name |-> FirstTruthy(entries[i].name, entries[i].displayName, EMPTY),
      displayName |-> FirstTruthy(entries[i].displayName, entries[i].name, EMPTY),
      canonicalName |-> entries[i].canon]]

\* orgsOut: the organizations array written back to data.json
OrgsOut(entries, ids) ==
  [i \in 1..Len(entries) |->
     [id |-> ids[i],
      name |-> FirstTruthy(entries[i].name, entries[i].displayName, EMPTY),
      displayName |-> FirstTruthy(entries[i].displayName, entries[i].name, EMPTY),
      canonicalName |-> entries[i].canon]]

\* canon -> orgId of a run, in entry order
CanonToOrgId(entries, ids) == [i \in 1..Len(entries) |-> [canon |-> entries[i].canon, id |-> ids[i]]]

\* if (!dryRun && !noBackup) fs.copyFileSync(DB_FILE, bakName), with every
\* run backing up as the variant
TakesBackup_EveryRun(dryRun, noBackup) == ~noBackup
TakesBackup(dryRun, noBackup) == ~dryRun /\ ~noBackup

\* node migrate-to-firestore.js [--dry-run] [--no-backup].  fsOk: the run's
\* Firestore writes succeed; bakOk: fs.copyFileSync succeeds (a failure is
\* caught and logged, 'continuing').  Without a service account the script
\* exits 1.
Migrate(dryRun, noBackup, fsOk, bakOk) ==
  /\ Tick
  /\ LET req == [dryRun |-> dryRun, noBackup |-> noBackup, cloudOk |-> fsOk,
                 backupOk |-> bakOk]
         write == ~dryRun /\ fsOk
         entries == canonicalEntries(organizations, events)
         assigned == AssignOrgIds(entries, 1, <<>>, fsOrganizations, uuid, write)
         ids == assigned.ids
         updatedEventsForWrite == MapEvents(events, entries, ids)
         paymentsToWrite == MapPayments(payments, entries, ids, updatedEventsForWrite)
         profs == MigrateProfiles(DOMAIN officerProfiles, entries, ids, NoDocs,
                                  fsOfficerProfiles, write, clock')
     IN IF ~firestore
        THEN /\ resp' = [op |-> "migrate", status |-> 1, req |-> req, body |-> <<>>,
                         upserts |-> <<>>]
             /\ UNCHANGED <<config, upsertCalls, putInFlight, backups, studentPage, dashboard, profiles, localFile, cloudDocs, blobs, uuid, input>>
        ELSE /\ backups' = IF TakesBackup(dryRun, noBackup) /\ bakOk
                           THEN backups \cup {[organizations |-> organizations,
                                               events |-> events,
                                               payments |-> payments,
                                               officerProfiles |-> officerProfiles]}
                           ELSE backups
             \* if (!dryRun) fs.writeFileSync(DB_FILE, ...): events, organizations
             \* and officerProfiles; the payments of data.json stay as they are
             /\ organizations' = IF dryRun THEN organizations ELSE OrgsOut(entries, ids)
             /\ events' = IF dryRun THEN events ELSE updatedEventsForWrite
             /\ officerProfiles' = IF dryRun THEN officerProfiles ELSE profs.map
             /\ fsOrganizations' = assigned.fsOrgs
             /\ fsOfficerProfiles' = profs.fsProfiles
             \* a dry run exits before the events and payments are pushed
             /\ fsEvents' = IF write THEN MergeAll(fsEvents, updatedEventsForWrite) ELSE fsEvents
             /\ fsPayments' = IF write THEN MergeAll(fsPayments, paymentsToWrite) ELSE fsPayments
             \* the ids a dry run generates are never stored
             /\ uuid' = IF dryRun THEN uuid ELSE assigned.uuid
             /\ resp' = [op |-> "migrate", status |-> 0, req |-> req,
                         body |-> CanonToOrgId(entries, ids), upserts |-> <<>>]
             /\ UNCHANGED <<config, upsertCalls, putInFlight, studentPage, dashboard, payments, blobs, input>>

MaxMigrateRuns == 2

\* data.json before a migration: up to two organization records, which may
\* share a canonical name, an event and a payment that may refer to either
MigOrgNames == {<<"e">>, <<"e^">>}
MigOrgLists ==
  {<<>>}
    \cup {<<StoredOrg(1, n1, s1)>> : n1 \in MigOrgNames, s1 \in {"server", "bare", "contact"}}
    \cup {<<StoredOrg(1, n1, s1), StoredOrg(2, n2, s2)>> :
            n1 \in MigOrgNames, s1 \in {"server", "bare"},
            n2 \in MigOrgNames, s2 \in {"server", "bare"}}

MigEvents ==
  {<<>>} \cup {<<[id |-> <<"ev1">>, name |-> <<"fee">>, org |-> org, orgId |-> orgId]>> :
                 org \in MigOrgNames, orgId \in {NULL, Uuid(2)}}

MigPayments ==
  {<<>>} \cup {<<[id |-> <<"p1">>, name |-> <<"fee">>, org |-> org, orgId |-> orgId,
                  event |-> <<"fee">>, eventId |-> NULL]>> :
                 org \in {NULL, <<"e^">>}, orgId \in {NULL, Uuid(2)}}

MigProfiles ==
  {NoDocs, [k \in {<<"e">>} |-> [designation |-> <<"treasurer">>, org |-> <<"e">>]]}

InitMigrate ==
  /\ firestore = TRUE
  /\ supabase = FALSE
  /\ organizations \in MigOrgLists
  /\ events \in MigEvents
  /\ payments \in MigPayments
  /\ fsOrganizations = NoDocs
  /\ fsEvents = NoDocs
  /\ fsPayments = NoDocs
  /\ officerProfiles \in MigProfiles
  /\ fsOfficerProfiles = NoDocs
  /\ dashboard = NoDashboard
  /\ backups = {}
  /\ studentPage = NoStudentPage
  /\ putInFlight = NONE
  /\ upsertCalls = NoCalls
  /\ bucket = {}
  /\ uploads = {}
  /\ uuid = 2
  /\ clock = 0
  /\ input = <<NULL, NULL>>
  /\ resp = NoResp

\* the runs of the script: each flag combination with Firestore and the backup
\* copy working, and a real run in which one of the two fails
MigrateRuns ==
  {[dryRun |-> d, noBackup |-> n, fsOk |-> TRUE, bakOk |-> TRUE] : d, n \in BOOLEAN}
    \cup {[dryRun |-> FALSE, noBackup |-> FALSE, fsOk |-> FALSE, bakOk |-> TRUE],
          [dryRun |-> FALSE, noBackup |-> FALSE, fsOk |-> TRUE, bakOk |-> FALSE]}

NextMigrate ==
  /\ clock < MaxMigrateRuns
  /\ \E run \in MigrateRuns : Migrate(run.dryRun, run.noBackup, run.fsOk, run.bakOk)

SpecMigrate == InitMigrate /\ [][NextMigrate]_vars

\* a migration run that went through (exit code 0), dry or real
Migrated == Answered("migrate") /\ resp'.status = 0
RealRun == Migrated /\ ~resp'.req.dryRun

\* the canonical name the migration files an organization record under
MigrationCanon(o) ==
  canonicalizeName(IF Truthy(Get(o, "canonicalName")) THEN o.canonicalName ELSE o.name)

\* the ids of the records that share a canonical name with another record
MergedIds(orgs) ==
  {orgs[i].id : i \in {k \in 1..Len(orgs) :
                         \E j \in 1..Len(orgs) :
                           j # k /\ MigrationCanon(orgs[j]) = MigrationCanon(orgs[k])}}

\* the id of the organization that holds the canonical name of record `id`
SurvivingId(before, after, id) ==
  LET o == before[CHOOSE i \in 1..Len(before) : before[i].id = id]
  IN after[CHOOSE i \in 1..Len(after) : after[i].canonicalName = MigrationCanon(o)].id

\* C26: after a real migration run data.json holds one Organization per
\* canonical name, and every Event and Payment that referred to a record
\* sharing its canonical name with another refers to the surviving record,
\* in data.json and, when the run wrote to Firestore, in the cloud documents.
C26_MigrationRemapsReferences ==
  [][RealRun =>
       /\ \A i, j \in 1..Len(organizations') :
            i # j => organizations'[i].canonicalName # organizations'[j].canonicalName
       /\ \A id \in MergedIds(organizations) :
            LET survivor == SurvivingId(organizations, organizations', id)
            IN /\ \A i \in 1..Len(events) :
                    events[i].orgId = id => events'[i].orgId = survivor
               /\ \A i \in 1..Len(payments) :
                    payments[i].orgId = id =>
                      /\ payments'[i].orgId = survivor
                      /\ resp'.req.cloudOk => fsPayments'[payments[i].id].orgId = survivor]_vars

\* the organization ids the two stores know
KnownOrgIds(orgs, fsOrgs) == {orgs[i].id : i \in 1..Len(orgs)} \cup DOMAIN fsOrgs

\* orgId and eventId of every document of coll that after still holds
SameRefs(coll, after) ==
  \A id \in DOMAIN coll :
    /\ id \in DOMAIN after
    /\ Get(after[id], "orgId") = Get(coll[id], "orgId")
    /\ Get(after[id], "eventId") = Get(coll[id], "eventId")

\* the step is a real run on the stores a real run left
SecondRun == RealRun /\ resp.op = "migrate" /\ resp.status = 0 /\ ~resp.req.dryRun

\* C27: a real run on the stores left by a real run adds no Organization
\* (no record, and no id the stores did not know), computes the same
\* canonicalName-to-orgId mapping, and changes no orgId or eventId of an
\* Event or Payment, in data.json or in Firestore.
C27_SecondRunChangesNothing ==
  [][SecondRun =>
       /\ Len(organizations') = Len(organizations)
       /\ KnownOrgIds(organizations', fsOrganizations')
            \subseteq KnownOrgIds(organizations, fsOrganizations)
       /\ resp'.body = resp.body
       /\ \A i \in 1..Len(events) : events'[i].orgId = events[i].orgId
       /\ payments' = payments
       /\ SameRefs(fsEvents, fsEvents')
       /\ SameRefs(fsPayments, fsPayments')]_vars

\* two real runs over a store whose event had no orgId: the second one found
\* the organization the first one created
C27_Witness ==
  /\ resp.op = "migrate"
  /\ resp.status = 0
  /\ ~resp.req.dryRun
  /\ clock = 2
  /\ Cardinality(backups) = 2
  /\ Len(organizations) = 1
  /\ organizations[1].id = Uuid(3)
  /\ Len(events) = 1
  /\ events[1].orgId = Uuid(3)
  /\ DOMAIN fsOrganizations = {Uuid(3)}

\* C28: a --dry-run writes no Firestore document, creates no backup file and
\* leaves data.json as it is.
C28_DryRunWritesNothing ==
  [][(Migrated /\ resp'.req.dryRun) =>
       /\ UNCHANGED <<fsOrganizations, fsEvents, fsPayments, fsOfficerProfiles>>
       /\ UNCHANGED backups
       /\ UNCHANGED <<organizations, events, payments, officerProfiles>>]_vars

\* a dry run without --no-backup over a store with work to do: it planned one
\* organization for two records and left the stores empty-handed
C28_Witness ==
  /\ resp.op = "migrate"
  /\ resp.status = 0
  /\ resp.req.dryRun
  /\ ~resp.req.noBackup
  /\ Len(resp.body) = 1
  /\ Len(organizations) = 2
  /\ Len(events) = 1
  /\ events[1].orgId = NULL
  /\ backups = {}
  /\ fsOrganizations = NoDocs

\* ------------------------------------------------------------------ student clients
MaxStudentRequests == 2

\* res.ok
ResOk(r) == r.status >= 200 /\ r.status < 300

\* res.text() of an error answer: the JSON text of { error: ... }
ResText(r) == <<"{\"error\":\"">> \o r.body.error \o <<"\"}">>

ThankYou == <<"Thank you for your payment!">>

\* one step of a page: nothing of the server changes
StudentStep(page) ==
  /\ studentPage' = page
  /\ UNCHANGED <<config, upsertCalls, putInFlight, backups, dashboard, profiles, localFile, cloudDocs, blobs, uuid, clock, input, resp>>

\* student-dashboard.js, paymentForm submit: the guard against double
\* submission and the required-fields check, then the request leaves
PaymentFormSubmit(token, amountPaid) ==
  /\ studentPage.view = "paymentForm"
  /\ IsNone(studentPage.pending)
  /\ Truthy(amountPaid)
  /\ parseFloat(amountPaid) # NaN
  /\ parseFloat(amountPaid).value > 0
  /\ StudentStep([studentPage EXCEPT
                    !.pending = [page |-> "student-dashboard", token |-> token,
                                 amount |-> amountPaid]])

\* app.js, form submit: the form as it is, without an Authorization header
AppFormSubmit(amount) ==
  /\ studentPage.view = "paymentForm"
  /\ IsNone(studentPage.pending)
  /\ StudentStep([studentPage EXCEPT
                    !.pending = [page |-> "app", token |-> NONE, amount |-> amount]])

\* the server handles the submission in flight
ServePendingPayment(fsOk) ==
  /\ ~IsNone(studentPage.pending)
  /\ studentPage.handled = clock
  /\ SubmitPayment(studentPage.pending.token, <<"fee">>, studentPage.pending.amount, NULL,
                   <<"fee">>, NULL, NULL, NULL, NULL, NULL, FALSE, fsOk, TRUE, "none")

\* submitPaymentToServer after the fetch: a non-ok answer is thrown as an
\* Error carrying the response text
submitPaymentToServer(r) ==
  IF ~ResOk(r) THEN [threw |-> TRUE, message |-> ResText(r)]
  ELSE [threw |-> FALSE, message |-> NULL]

\* student-dashboard.js, paymentForm submit after the await: on success the
\* confirmation view; in the catch the payment is pushed to the localStorage
\* paymentHistory as pending and the confirmation view is shown all the same
PaymentFormSettled ==
  /\ ~IsNone(studentPage.pending)
  /\ studentPage.pending.page = "student-dashboard"
  /\ studentPage.handled < clock
  /\ LET outcome == submitPaymentToServer(resp)
         history == IF outcome.threw
                    THEN Append(studentPage.paymentHistory,
                                [event |-> <<"fee">>, amount |-> studentPage.pending.amount,
                                 status |-> <<"pending">>])
                    ELSE studentPage.paymentHistory
     IN StudentStep([view |-> "confirmation", message |-> ThankYou, paymentHistory |-> history,
                     pending |-> NONE, handled |-> clock])

\* app.js, form submit after the await: the error field of a non-ok answer,
\* or 'Payment submitted!'
AppFormSettled ==
  /\ ~IsNone(studentPage.pending)
  /\ studentPage.pending.page = "app"
  /\ studentPage.handled < clock
  /\ StudentStep([studentPage EXCEPT
                    !.message = IF ~ResOk(resp)
                                THEN (IF Truthy(resp.body.error) THEN resp.body.error
                                      ELSE <<"Failed">>)
                                ELSE <<"Payment submitted!">>,
                    !.pending = NONE,
                    !.handled = clock])

\* the Okay button of the confirmation view, then Pay now: back to the form
ConfirmOk ==
  /\ studentPage.view = "confirmation"
  /\ StudentStep([studentPage EXCEPT !.view = "paymentForm", !.message = NULL])

NextStudent ==
  \/ \E token \in Tokens, amountPaid \in {<<"0">>, <<"5">>} : PaymentFormSubmit(token, amountPaid)
  \/ \E amount \in {NULL, <<"5">>} : AppFormSubmit(amount)
  \/ /\ clock < MaxStudentRequests
     /\ \E fsOk \in CloudOutcomes : ServePendingPayment(fsOk)
  \/ PaymentFormSettled
  \/ AppFormSettled
  \/ ConfirmOk

SpecStudent == InitOrgs /\ [][NextStudent]_vars

\* a page consumed the answer to its submission
SubmissionSettled == studentPage'.handled # studentPage.handled

\* C29: when the server answers a payment submission with an error, the page
\* that sent it shows the server's message (the response text or its error
\* field) and does not show the confirmation of an accepted payment.
C29_FailureShown ==
  [][(SubmissionSettled /\ ~ResOk(resp)) =>
       /\ studentPage'.view # "confirmation"
       /\ studentPage'.message \in {resp.body.error, ResText(resp)}]_vars

\* ------------------------------------------------------------------ requests racing on data.json
MaxRaceRequests == 4

\* the db a resuming handler hands to writeDB, had it read the file again
WrittenBack_Reread(snapshot, current, updated) ==
  [current EXCEPT !.events[EventIndex(current.events, updated.id)] = updated]

\* the db a resuming PUT /api/events/:id hands to writeDB: the object readDB()
\* returned when the request started, with the event changed
WrittenBack(snapshot, current, updated) ==
  [snapshot EXCEPT !.events[EventIndex(snapshot.events, updated.id)] = updated]

\* data.json as readDB() returns it
CurrentDb ==
  [organizations |-> organizations, events |-> events, payments |-> payments,
   officerProfiles |-> officerProfiles]

\* PUT /api/events/:id {status, orgId} up to `await getOrgById(update.orgId)`:
\* with Firestore configured the lookup waits for the network, and other
\* requests are served before this handler goes on
PutEventBegin(id, status, orgId) ==
  /\ IsNone(putInFlight)
  /\ firestore
  /\ Truthy(orgId)
  /\ EventIndex(events, id) # 0
  /\ putInFlight' = [id |-> id, status |-> status, orgId |-> orgId, db |-> CurrentDb]
  /\ UNCHANGED <<config, upsertCalls, backups, studentPage, dashboard, profiles, localFile, cloudDocs, blobs, uuid, clock, input, resp>>

\* the rest of that handler, from the answer of getOrgById to res.json
PutEventResume(fsUp, fsOk) ==
  /\ ~IsNone(putInFlight)
  /\ Tick
  /\ LET db == putInFlight.db
         old == db.events[EventIndex(db.events, putInFlight.id)]
         orgObj == getOrgById(organizations, fsOrganizations, putInFlight.orgId, fsUp)
         resolved == IF ~IsNone(orgObj)
                     THEN [old EXCEPT !.orgId = orgObj.id, !.org = orgObj.name]
                     ELSE old
         updated == IF putInFlight.status # NULL
                    THEN [resolved EXCEPT !.status = putInFlight.status] ELSE resolved
         out == WrittenBack(db, CurrentDb, updated)
     IN /\ organizations' = out.organizations
        /\ events' = out.events
        /\ payments' = out.payments
        /\ officerProfiles' = out.officerProfiles
        /\ fsEvents' = IF fsOk THEN DocMerge(fsEvents, updated.id, updated) ELSE fsEvents
        /\ putInFlight' = NONE
        /\ resp' = [op |-> "PUT /api/events/:id", status |-> MirrorStatus(fsOk), body |-> updated,
                    req |-> [file |-> FALSE, uploadOk |-> TRUE, cloudOk |-> fsOk],
                    upserts |-> <<>>]
        /\ UNCHANGED <<config, upsertCalls, backups, studentPage, dashboard, fsOrganizations, fsPayments, fsOfficerProfiles, blobs, uuid, input>>

NextRace ==
  \/ /\ clock < MaxRaceRequests
     /\ \E up \in CloudOutcomes :
          PostEvent(<<"fee">>, <<"e">>, NULL, NONE, NONE, up, up, TRUE, "signed")
  \/ /\ clock < MaxRaceRequests
     /\ \E up \in CloudOutcomes :
          SubmitPayment(Student1, <<"fee">>, <<"5">>, NULL, NULL, NULL, NULL, NULL, NULL, NULL,
                        FALSE, up, TRUE, "none")
  \/ /\ clock < MaxRaceRequests
     /\ \E id \in PaymentRefs, fsOk \in CloudOutcomes : ApprovePayment(id, fsOk)
  \/ /\ clock < MaxRaceRequests
     /\ \E id \in EventRefs, orgId \in OrgRefs : PutEventBegin(id, <<"Closed">>, orgId)
  \/ /\ clock < MaxRaceRequests
     /\ \E up \in CloudOutcomes : PutEventResume(up, up)

InitRace == InitWith(TRUE, FALSE)

SpecRace == InitRace /\ [][NextRace]_vars

\* a suspended PUT /api/events/:id resumed and answered
PutEventResumed == ~IsNone(putInFlight) /\ IsNone(putInFlight')

\* C30: a PUT /api/events/:id that resumes after other requests were served
\* writes back the whole file as it read it at its start (last write wins):
\* the payments and organizations of data.json are those of its snapshot,
\* whatever acknowledged change the file held in between.
C30_StaleSnapshotWins ==
  [][PutEventResumed =>
       /\ payments' = putInFlight.db.payments
       /\ organizations' = putInFlight.db.organizations
       /\ officerProfiles' = putInFlight.db.officerProfiles]_vars

\* an approval was served and mirrored while the PUT was suspended, and after
\* the PUT's answer data.json holds the payment as pending again
C30_Witness ==
  /\ resp.op = "PUT /api/events/:id"
  /\ resp.status = 200
  /\ \E i \in 1..Len(payments) :
       /\ payments[i].status = <<"pending">>
       /\ payments[i].id \in DOMAIN fsPayments
       /\ fsPayments[payments[i].id].status = <<"approved">>

\* ------------------------------------------------------------------ POST /api/orgs requests in progress together
MaxUpsertRequests == 3

\* the client's request is inside `await upsertOrganizationByName(...)`
Running(c) == ~IsNone(upsertCalls[c]) /\ ~upsertCalls[c].returned

TheOther(c) == CHOOSE d \in Callers : d # c

\* POST /api/orgs {name} up to the first point where the handler yields:
\* upsertOrganizationByName runs readDB, the lookup, unshift and writeDB in
\* one synchronous stretch, then waits (for the Firestore set, or for the
\* promise it returned).  Answered requests that did not overlap this one
\* are forgotten.
PostOrgBegin(c, name) ==
  /\ ~Running(c)
  /\ Truthy(name)
  /\ LET r == upsertOrganizationByName(organizations, fsOrganizations, uuid, name, NULL, FALSE)
         d == TheOther(c)
         together == Running(d)
     IN /\ organizations' = r.orgs
        /\ uuid' = r.uuid
        /\ upsertCalls' =
             [k \in Callers |->
                IF k = c
                THEN [name |-> name, org |-> r.org, created |-> r.uuid # uuid,
                      together |-> together, returned |-> FALSE]
                ELSE IF together THEN [upsertCalls[d] EXCEPT !.together = TRUE]
                ELSE NONE]
  /\ UNCHANGED <<config, putInFlight, backups, studentPage, dashboard, profiles, events, payments, cloudDocs, blobs, clock, input, resp>>

\* the rest of that request: the Firestore set of a created organization
\* settles (fsOk: it succeeded) and the handler answers with the organization
PostOrgReturn(c, fsOk) ==
  /\ Running(c)
  /\ Tick
  /\ LET call == upsertCalls[c]
     IN /\ fsOrganizations' = IF firestore /\ fsOk /\ call.created
                              THEN DocSet(fsOrganizations, call.org.id, call.org)
                              ELSE fsOrganizations
        /\ upsertCalls' = [upsertCalls EXCEPT ![c].returned = TRUE]
        /\ resp' = [op |-> "POST /api/orgs", status |-> MirrorStatus(fsOk),
                    req |-> [cloudOk |-> fsOk], body |-> call.org,
                    upserts |-> <<[name |-> call.name, id |-> call.org.id]>>]
  /\ UNCHANGED <<config, putInFlight, backups, studentPage, dashboard, profiles, localFile, fsEvents, fsPayments, blobs, uuid, input>>

NextUpsert ==
  \/ /\ clock + Cardinality({c \in Callers : Running(c)}) < MaxUpsertRequests
     /\ \E c \in Callers, name \in OrgNames : PostOrgBegin(c, name)
  \/ \E c \in Callers, fsOk \in CloudOutcomes : PostOrgReturn(c, fsOk)

SpecUpsert == InitOrgs /\ [][NextUpsert]_vars

\* both clients' requests were in progress together, both have been answered,
\* they named the same organization, and the name was brand-new: the first of
\* them created the record
RacedPair ==
  /\ \A c \in Callers : ~IsNone(upsertCalls[c]) /\ upsertCalls[c].returned /\ upsertCalls[c].together
  /\ upsertCalls[1].name = upsertCalls[2].name
  /\ \E c \in Callers : upsertCalls[c].created

RecordsWithKey(canon) == {i \in 1..Len(organizations) : OrgKey(organizations[i]) = canon}

MaxQrRequests == 3

\* the receiver the dashboard's edit form sends: number and name, qr deleted
ReceiverMeta == [number |-> <<"0917">>, name |-> <<"e">>]

\* the updates sent: a new QR file alone, or receiver metadata without a file
QrUpdates ==
  {[receiver |-> NONE, file |-> file] : file \in {PngFile, JpgFile, BareFile}}
    \cup {[receiver |-> ReceiverMeta, file |-> NONE]}

NextQr ==
  \/ /\ clock < MaxQrRequests
     /\ \E file \in {NONE, PngFile}, up \in CloudOutcomes, upOk \in UploadOutcomes :
          PostEvent(<<"fee">>, <<"e">>, NULL, NONE, file, up, up, upOk, "signed")
  \/ /\ clock < MaxQrRequests
     /\ \E id \in EventRefs, request \in QrUpdates, up \in CloudOutcomes,
           upOk \in UploadOutcomes :
          PutEvent(id, NULL, NULL, request.receiver, NULL, NULL, request.file, up, up, upOk,
                   "signed")

\* QR files go to the bucket when it is configured, to uploads/ otherwise;
\* the events live in data.json alone
InitQr == \E sb \in BOOLEAN : InitWith(FALSE, sb)

SpecQr == InitQr /\ [][NextQr]_vars

\* the objects of the bucket stored under the event's id
QrObjectsOf(objects, eventId) ==
  LET prefix == <<"events/receiver_qr/">> \o eventId
  IN {p \in objects : Len(p) >= Len(prefix) /\ SubSeq(p, 1, Len(prefix)) = prefix}

\* a create or update request uploaded a receiver QR file to the bucket
QrUploaded ==
  /\ Answered("POST /api/events") \/ Answered("PUT /api/events/:id")
  /\ resp'.status = 200
  /\ supabase
  /\ resp'.req.file
  /\ resp'.req.uploadOk

\* C32: after any sequence of receiver-QR uploads for one event (at most one
\* on create, any number on update), the cloud object store holds at most one
\* QR object for that event, and the event's stored QR reference is the
\* object the most recent upload wrote.
C32_OneQrObject ==
  [][QrUploaded =>
       LET id == resp'.body.id
           ev == events'[EventIndex(events', id)]
       IN /\ Cardinality(QrObjectsOf(bucket', id)) <= 1
          /\ QrObjectsOf(bucket', id) = {ev.receiver.qrObjectPath}
          /\ bucket' \ bucket \subseteq {ev.receiver.qrObjectPath}]_vars

\* ------------------------------------------------------------------ the dashboard's signed-URL cache
MaxCacheCalls == 3
MaxCacheClock == 5

\* Date.now() counts milliseconds, the clock of this model seconds
MsPerSecond == 1000
DateNow(t) == t * MsPerSecond

\* the margin a cached URL must still have
MarginMs == 2000

\* the cache test, had it compared with the current time alone
CacheHit_NoMargin(cached, now) ==
  ~IsNone(cached) /\ Truthy(cached.url) /\ cached.expiresAt # 0 /\ cached.expiresAt > now

\* cached && cached.url && cached.expiresAt && cached.expiresAt > now + 2000
CacheHit(cached, now) ==
  ~IsNone(cached) /\ Truthy(cached.url) /\ cached.expiresAt # 0
    /\ cached.expiresAt > now + MarginMs

\* signedUrlCache.get(paymentId)
CacheGet(cache, paymentId) == IF paymentId \in DOMAIN cache THEN cache[paymentId] ELSE NONE

\* what GET /api/payments/:id/proof-url may answer: an error, a local URL
\* ({url, expiresIn: 0, local: true}) or a signed one ({url, expiresIn: ttl,
\* local: false}); the ttl is drawn small
ProofUrlAnswers(paymentId) ==
  {[ok |-> FALSE]}
    \cup {[ok |-> TRUE, url |-> LocalUrl(paymentId), expiresIn |-> 0, local |-> TRUE]}
    \cup {[ok |-> TRUE, url |-> SignedUrl(paymentId), expiresIn |-> ttl, local |-> FALSE] :
            ttl \in {1, 3}}

\* requestSignedUrl(paymentId), res being the server's answer if it is asked:
\* a second passes while the request is out.  proof keeps, for the page, what
\* the call found in the cache, what it returned and whether it asked the server
requestSignedUrl(paymentId, res) ==
  /\ dashboard.proof.calls < MaxCacheCalls
  /\ clock < MaxCacheClock
  /\ Truthy(paymentId)
  /\ LET now == DateNow(clock)
         cached == CacheGet(dashboard.signedUrlCache, paymentId)
         called == [calls |-> dashboard.proof.calls + 1, paymentId |-> paymentId, found |-> cached]
     IN IF CacheHit(cached, now)
        THEN /\ dashboard' = [dashboard EXCEPT
                                !.proof = Assign(called, [entry |-> cached, requested |-> FALSE])]
             /\ UNCHANGED clock
        ELSE /\ Tick
             /\ IF ~res.ok
                THEN dashboard' = [dashboard EXCEPT
                                     !.proof = Assign(called, [entry |-> NONE, requested |-> TRUE])]
                ELSE LET ttl == res.expiresIn
                         expiresAt == IF ttl > 0 THEN DateNow(clock') + ttl * MsPerSecond ELSE 0
                         entry == [url |-> res.url, expiresAt |-> expiresAt, local |-> res.local]
                     IN dashboard' = [dashboard EXCEPT
                                        !.signedUrlCache = DocSet(@, paymentId, entry),
                                        !.proof = Assign(called, [entry |-> entry, requested |-> TRUE])]
  /\ UNCHANGED <<config, upsertCalls, putInFlight, backups, studentPage, profiles, localFile, cloudDocs, blobs, uuid, input, resp>>

\* time passes on the page
TimePasses ==
  /\ clock < MaxCacheClock
  /\ Tick
  /\ UNCHANGED <<config, upsertCalls, putInFlight, backups, studentPage, dashboard, profiles, localFile, cloudDocs, blobs, uuid, input, resp>>

CachedPaymentIds == {<<"p1">>, <<"p2">>}

NextCache ==
  \/ \E paymentId \in CachedPaymentIds : \E res \in ProofUrlAnswers(paymentId) :
       requestSignedUrl(paymentId, res)
  \/ TimePasses

SpecCache == InitOrgs /\ [][NextCache]_vars

SignedUrlCalled == dashboard'.proof.calls # dashboard.proof.calls

C34_BackupBeforeWrite ==
  [][(Migrated /\ resp'.status = 0 /\ ~resp'.req.dryRun /\ ~resp'.req.noBackup)
       => CurrentDb \in backups']_vars

\* ------------------------------------------------------------------ the migration's payment backfill
\* the ids of the organizations records filed under the payment's canonical
\* organization name
OrgIdsNamed(orgs, p) ==
  {orgs[k].id : k \in {k \in 1..Len(orgs) :
                         /\ Truthy(Get(p, "org"))
                         /\ orgs[k].canonicalName = canonicalizeName(p.org)}}

\* the ids of the events the payment's event name resolves to: by the
\* resolved orgId plus the event name, else by the canonical organization
\* name plus the event name
EventIdsNamed(evs, p, orgId) ==
  LET evName == FirstTruthy(Get(p, "event"), Get(p, "name"), EMPTY)
      byOrgId == {k \in 1..Len(evs) : Truthy(orgId) /\ evs[k].orgId = orgId /\ evs[k].name = evName}
      byCanon == {k \in 1..Len(evs) :
                    /\ Truthy(Get(p, "org"))
                    /\ Truthy(evs[k].org)
                    /\ canonicalizeName(evs[k].org) = canonicalizeName(p.org)
                    /\ evs[k].name = evName}
  IN {evs[k].id : k \in IF byOrgId # {} THEN byOrgId ELSE byCanon}

\* C35: after a real migration run whose cloud writes succeed, every payment
\* that lacked orgId or eventId and whose organization/event can be resolved
\* carries the backfilled ids in data.json as well as in the cloud store, so
\* that both stores hold the same orgId/eventId for every payment.
C35_BackfillInBothStores ==
  [][(RealRun /\ resp'.req.cloudOk) =>
       \A i \in 1..Len(payments) :
         LET old == payments[i]
             local == payments'[i]
             cloud == fsPayments'[old.id]
         IN /\ old.id \in DOMAIN fsPayments'
            /\ (~Truthy(Get(old, "orgId")) /\ OrgIdsNamed(organizations', old) # {})
                 => /\ Get(local, "orgId") \in OrgIdsNamed(organizations', old)
                    /\ Get(cloud, "orgId") \in OrgIdsNamed(organizations', old)
            /\ (~Truthy(Get(old, "eventId"))
                  /\ EventIdsNamed(events', old, Get(cloud, "orgId")) # {})
                 => /\ Get(local, "eventId") \in EventIdsNamed(events', old, Get(cloud, "orgId"))
                    /\ Get(cloud, "eventId") \in EventIdsNamed(events', old, Get(cloud, "orgId"))
            /\ Get(local, "orgId") = Get(cloud, "orgId")
            /\ Get(local, "eventId") = Get(cloud, "eventId")]_vars

\* the cloud half of C35 alone: the backfilled ids reach the cloud store
CloudBackfilled ==
  [][(RealRun /\ resp'.req.cloudOk) =>
       \A i \in 1..Len(payments) :
         LET old == payments[i]
             cloud == fsPayments'[old.id]
         IN /\ old.id \in DOMAIN fsPayments'
            /\ (~Truthy(Get(old, "orgId")) /\ OrgIdsNamed(organizations', old) # {})
                 => Get(cloud, "orgId") \in OrgIdsNamed(organizations', old)
            /\ (~Truthy(Get(old, "eventId"))
                  /\ EventIdsNamed(events', old, Get(cloud, "orgId")) # {})
                 => Get(cloud, "eventId") \in EventIdsNamed(events', old, Get(cloud, "orgId"))]_vars

\* ------------------------------------------------------------------ who gets to see a proof
MaxLeakRequests == 2

\* where(field, '==', value) / filter over a list of payments
RECURSIVE PaymentsWhere(_, _, _)
PaymentsWhere(pays, f, v) ==
  IF pays = <<>> THEN <<>>
  ELSE (IF Get(Head(pays), f) = v THEN <<Head(pays)>> ELSE <<>>) \o PaymentsWhere(Tail(pays), f, v)

\* listPaymentsForUserFirestore(uid, email): by uid when there is one, else by email
listPaymentsForUserFirestore(uid, email) ==
  IF Truthy(uid) THEN PaymentsWhere(DocsList(fsPayments), "submittedByUid", uid)
  ELSE IF Truthy(email) THEN PaymentsWhere(DocsList(fsPayments), "submittedByEmail", email)
  ELSE <<>>

\* db.payments.filter(p => (p.submittedByUid && p.submittedByUid === uid) ||
\*                         (p.submittedByEmail && p.submittedByEmail === email))
RECURSIVE OwnPayments(_, _)
OwnPayments(pays, user) ==
  IF pays = <<>> THEN <<>>
  ELSE (IF isOwner(Head(pays), user) THEN <<Head(pays)>> ELSE <<>>) \o OwnPayments(Tail(pays), user)

\* GET /api/my-payments (behind verifyFirebaseToken)
GetMyPayments(token, fsUp, sign) ==
  LET auth == verifyFirebaseToken(token)
      user == auth.user
      req == [token |-> token, cloudUp |-> fsUp]
      list == IF firestore /\ fsUp
              THEN listPaymentsForUserFirestore(UserField(user, "uid"), UserField(user, "email"))
              ELSE OwnPayments(payments, user)
  IN IF ~auth.ok
     THEN Answer("GET /api/my-payments", 401, req, [error |-> <<"Missing or invalid token">>])
     ELSE Answer("GET /api/my-payments", 200, req, ToJsonAll(InjectProofUrls(list, sign)))

NextLeak ==
  \/ /\ clock < MaxLeakRequests
     /\ \E token \in SubmitTokens, email \in {NULL, Student2.email}, file \in BOOLEAN,
           up \in CloudOutcomes, upOk \in UploadOutcomes, sign \in SignChoices :
          SubmitPayment(token, <<"fee">>, <<"5">>, NULL, NULL, NULL, NULL, email, NULL, NULL, file,
                        up, upOk, sign)
  \/ /\ clock < MaxLeakRequests
     /\ \E token \in Tokens, id \in PaymentRefs, up \in CloudOutcomes,
           signOk \in UploadOutcomes :
          GetProofUrl(token, id, up, signOk)
  \/ /\ clock < MaxLeakRequests
     /\ \E fsUp \in CloudOutcomes, sign \in SignChoices : GetPayments(NULL, NULL, NULL, fsUp, sign)
  \/ /\ clock < MaxLeakRequests
     /\ \E token \in Tokens, fsUp \in CloudOutcomes, sign \in SignChoices :
          GetMyPayments(token, fsUp, sign)

SpecLeak == Init /\ [][NextLeak]_vars

\* the served payment shows where its proof is: an object path or a URL
ShowsProof(p) == Truthy(Get(p, "proofObjectPath")) \/ Truthy(Get(p, "proofFile"))

\* the requester is the payment's submitter or an officer
MayReadProofOf(p, token) ==
  /\ token \in Users
  /\ isOwner(p, token) \/ isOfficer(token)

\* C36: a requester who is neither a payment's submitter nor an officer gets
\* neither a proof URL nor the proof object path of that payment from GET
\* /api/payments/:id/proof-url, GET /api/payments or GET /api/my-payments.
\* GET /api/payments reads no credentials: what it answers, it answers to
\* every requester.
C36_ProofOnlyForSubmitterOrOfficer ==
  /\ resp.op = "GET /api/payments/:id/proof-url"
       => (~MayReadProof(resp.req.token, resp.req.id)
             => "url" \notin DOMAIN resp.body /\ "path" \notin DOMAIN resp.body)
  /\ (resp.op = "GET /api/my-payments" /\ resp.status = 200)
       => \A j \in 1..Len(resp.body) :
            ShowsProof(resp.body[j]) => MayReadProofOf(resp.body[j], resp.req.token)
  /\ resp.op = "GET /api/payments"
       => \A j \in 1..Len(resp.body) : ~ShowsProof(resp.body[j])

\* the same without the unauthenticated listing: the two routes that read the
\* requester's token keep proofs to the submitter and the officer
TokenRoutesGuardProof ==
  /\ resp.op = "GET /api/payments/:id/proof-url"
       => (~MayReadProof(resp.req.token, resp.req.id)
             => "url" \notin DOMAIN resp.body /\ "path" \notin DOMAIN resp.body)
  /\ (resp.op = "GET /api/my-payments" /\ resp.status = 200)
       => \A j \in 1..Len(resp.body) :
            ShowsProof(resp.body[j]) => MayReadProofOf(resp.body[j], resp.req.token)

\* ------------------------------------------------------------------ organizations created by an event update
\* C37: an Organization created implicitly while handling PUT
\* /api/events/:id (the request names an org that is not yet in the registry)
\* is in data.json when the request completes: the id each upsert of the
\* request returned is the id of a stored Organization of that canonical
\* name, and the updated event's orgId is the id of a stored Organization.
C37_ImplicitOrgStored ==
  [][(Answered("PUT /api/events/:id") /\ resp'.status = 200) =>
       /\ \A k \in 1..Len(resp'.upserts) :
            \E i \in 1..Len(organizations') :
              /\ organizations'[i].id = resp'.upserts[k].id
              /\ OrgKey(organizations'[i]) = canonicalOrgName(resp'.upserts[k].name)
       /\ (resp'.upserts # <<>> /\ Truthy(resp'.body.orgId))
            => \E i \in 1..Len(organizations') : organizations'[i].id = resp'.body.orgId]_vars

\* ------------------------------------------------------------------ the mirror of a review
\* C38: after every completed approve or unapprove whose mirror write
\* succeeds, the cloud store's copy of the payment has the same status and the
\* same approvedAt (present with the same value, or absent) as the copy in
\* data.json.
C38_ReviewMirrored ==
  [][((Completed("POST /api/payments/:id/approve")
         \/ Completed("POST /api/payments/:id/unapprove"))
        /\ firestore /\ resp'.req.cloudOk)
       => LET id == resp'.req.id
              local == payments'[PaymentIndex(payments', id)]
          IN /\ id \in DOMAIN fsPayments'
             /\ fsPayments'[id].status = local.status
             /\ ("approvedAt" \in DOMAIN fsPayments'[id]) = ("approvedAt" \in DOMAIN local)
             /\ Get(fsPayments'[id], "approvedAt") = Get(local, "approvedAt")]_vars

\* the approve half of C38 alone
ApproveMirrored ==
  [][(Completed("POST /api/payments/:id/approve") /\ firestore /\ resp'.req.cloudOk)
       => LET id == resp'.req.id
              local == payments'[PaymentIndex(payments', id)]
          IN /\ id \in DOMAIN fsPayments'
             /\ fsPayments'[id].status = local.status
             /\ Get(fsPayments'[id], "approvedAt") = Get(local, "approvedAt")]_vars

\* ------------------------------------------------------------------ receiver metadata without a QR file
\* the event's receiver holds the same value, or the same absence, under f
SameField(before, after, f) ==
  /\ (f \in DOMAIN after) = (f \in DOMAIN before)
  /\ f \in DOMAIN before => after[f] = before[f]

\* C39: a PUT /api/events/:id that carries receiver metadata (number, name)
\* but no new QR file leaves the event's stored QR reference
\* (receiver.qrObjectPath, receiver.qrObjectIsLocal, receiver.qr) unchanged.
C39_ReceiverMetaKeepsQr ==
  [][\A id \in EventRefs, up \in CloudOutcomes :
       (PutEvent(id, NULL, NULL, ReceiverMeta, NULL, NULL, NONE, up, up, TRUE, "signed")
          /\ resp'.status = 200)
         => LET idx == EventIndex(events, id)
            IN \A f \in {"qrObjectPath", "qrObjectIsLocal", "qr"} :
                 SameField(events[idx].receiver, events'[idx].receiver, f)]_vars

\* ------------------------------------------------------------------ attributes of migrated organizations
OrgAttributes == {"logoUrl", "contactEmail", "metadata", "updatedAt"}

\* C40: a real migration run keeps, in data.json, every attribute (logoUrl,
\* contactEmail, metadata, updatedAt) of each Organization record that
\* survives the run; only id, name, displayName and canonicalName may change.
C40_OrgAttributesKept ==
  [][RealRun
       => \A i \in 1..Len(organizations), j \in 1..Len(organizations') :
            (/\ "id" \in DOMAIN organizations[i]
             /\ organizations'[j].id = organizations[i].id)
              => \A f \in OrgAttributes :
                   SameField(organizations[i], organizations'[j], f)]_vars

====
